---- MODULE Spec2Model ----
(***************************************************************************)
(* A model of cppb, an incremental C/C++ build tool.                       *)
(*                                                                         *)
(*   - the dependency analyzer and the effective-time computation          *)
(*     (src/src/analyze.cpp),                                              *)
(*   - the rule engine, the staleness checks, the linker gate and the      *)
(*     build orchestrator (src/src/main.cpp),                              *)
(*   - the concurrent compilation scheduler run_commands                   *)
(*     (src/src/main.cpp),                                                 *)
(*   - the exit status a child process is reported with                    *)
(*     (src/src/process.cpp, POSIX branch),                                *)
(*   - the include scanner get_includes (src/src/analyze.cpp),             *)
(*   - the thread pool (src/src/thread_pool.h),                            *)
(*   - the inheritance between the configurations of a configuration       *)
(*     file (src/src/config.cpp).                                          *)
(*                                                                         *)
(* The specifications share the variables:                                 *)
(*   Spec        a sequence of builds of one project, with files touched   *)
(*               between the builds,                                       *)
(*   SpecRepeat  the same, followed by one more build of the unchanged     *)
(*               project,                                                  *)
(*   SpecProject the builds of one project under every command line option *)
(*               and further configurations,                               *)
(*   SpecRule    the stand-alone run-rule command over small rule graphs,  *)
(*   SpecSched   run_commands with its futures completing in any order,    *)
(*               and the stages of the build that follow it,               *)
(*   SpecAnalyze the dependency analysis step by step, over source trees   *)
(*               whose include lines spell their paths in several ways,    *)
(*   SpecResolve the resolution of one include line against the            *)
(*               directory of its source and the include directories,      *)
(*   SpecScan    get_includes applied to the text of one file,             *)
(*   SpecPool    one thread_pool, its caller and its worker threads;       *)
(*               SpecPoolFair adds that every thread keeps running,        *)
(*   SpecConfigs get_project_configs applied to one configuration file;    *)
(*               SpecConfigsFair adds that the calls keep running.         *)
(***************************************************************************)
EXTENDS Integers, Sequences, FiniteSets, TLC

(***************************************************************************)
(* Bounds of the model.                                                    *)
(***************************************************************************)
\* builds run one after the other in one behaviour
MaxBuilds == 2
\* files touched by the user over one behaviour
MaxTouches == 1
\* call-stack frames run_rule may use before the stack is exhausted
StackLimit == 4
\* compiler invocations handed to run_commands
MaxInvocations == 4
\* the redundant path components the file system accepts in one path
MaxDots == 2
\* worker threads a thread_pool is constructed for
MaxThreads == 2
\* tasks pushed to one thread_pool
MaxTasks == 3
\* pieces of text a scanned file is put together from
MaxPieces == 4

\* the configurations of a configuration file
MaxConfigs == 3

(***************************************************************************)
(* Time stamps.  fs::file_time_type::min() is the lowest time stamp; the   *)
(* files of the model carry stamps above it.                               *)
(***************************************************************************)
TimeMin == 0
NoFile == TimeMin - 1

Max(a, b) == IF a > b THEN a ELSE b

Range(s) == { s[i] : i \in 1..Len(s) }

\* the file system: the modification time of every path, NoFile when absent
Exists(fsys, p) == fsys[p] # NoFile
LastWriteTime(fsys, p) == fsys[p]

(***************************************************************************)
(* The project tree.  Two translation units and two headers in the source  *)
(* directory; an include list holds the resolved targets of a file's       *)
(* #include lines in their textual order.                                  *)
(***************************************************************************)
TranslationUnits == { "a.cpp", "r.c" }
Headers == { "b.h", "c.h" }
SourceTree == TranslationUnits \cup Headers

(***************************************************************************)
(* Path spelling.  source_directory / include.path keeps the redundant     *)
(* components of an include line ("../inc/b.h" written in a file of inc/), *)
(* and fs::absolute does not remove them; a path names its file through    *)
(* any number of them.  One redundant level is written as a leading "./".  *)
(* MaxDots stands for the longest path the file system accepts.            *)
(***************************************************************************)
RECURSIVE Spell(_, _)
Spell(file, n) == IF n = 0 THEN file ELSE "./" \o Spell(file, n - 1)

\* the number of redundant levels of a path
Dots(p) ==
    IF \E h \in Headers, n \in 1..MaxDots : p = Spell(h, n)
    THEN CHOOSE n \in 1..MaxDots : \E h \in Headers : p = Spell(h, n)
    ELSE 0

\* path::lexically_normal
LexicallyNormal(p) ==
    IF \E h \in Headers, n \in 1..MaxDots : p = Spell(h, n)
    THEN CHOOSE h \in Headers : \E n \in 1..MaxDots : p = Spell(h, n)
    ELSE p

VARIABLES
    includes,      \* disk: SourceTree -> the resolved include list of the file
    dir_order,     \* the order the directory iterator yields the translation units
    fs,            \* disk: path -> modification time, NoFile when absent
    clock,         \* the time new writes are stamped with
    depjson,       \* disk: the JSON document in the dependency file
    cfg,           \* the resolved configuration of the project being built
    all_rules,     \* the rules of the configuration file
    pc,            \* where build_project stands
    opts,          \* the command line options of the running build
    source_files,  \* build_project: source_files
    loc,           \* build_project: the time stamps and object list it carries along
    trace,         \* the stages run by this build, each with its result
    checked,       \* the translation units whose staleness this build has decided
    invocations,   \* the translation units this build ran the compiler for
    results,       \* the process_result of each of these invocations
    linked,        \* the number of times this build ran the linker
    ran,           \* the rule commands this build executed, each with its exit code
    build_result,  \* the value build_project returned
    crash,         \* why the process ended abnormally, "" when it did not
    nbuilds,       \* builds started so far
    ntouches,      \* files touched so far
    changed,       \* inputs written since the previous build ended
    prev_ok,       \* the previous build returned 0
    sched,         \* run_commands: its local variables while it runs
    stdout,        \* run_commands: what it has printed
    output_file_infos, \* disk: the output_file_info kept for each output, NoInfo when none
    analysis,      \* fill_last_modified_times, analyze_source_files: their call stack and loop positions
    pool,          \* thread_pool: its members, its worker threads and the tasks pushed to it
    source_text,   \* disk: the content of the file get_includes reads, character by character
    config_objects \* get_project_configs: the configuration objects, the error and the calls in progress

(***************************************************************************)
(* analyze.cpp                                                             *)
(***************************************************************************)

\* get_dependencies: the includes of a file that resolve to an existing file
RECURSIVE ExistingOnly(_, _)
ExistingOnly(fsys, paths) ==
    IF paths = << >> THEN << >>
    ELSE IF Exists(fsys, Head(paths))
         THEN << Head(paths) >> \o ExistingOnly(fsys, Tail(paths))
         ELSE ExistingOnly(fsys, Tail(paths))

\* the include lines of the file the path names, each resolved against the
\* directory of the path as it is spelled
GetDependencies(fsys, incl, source) ==
    LET lines == incl[LexicallyNormal(source)]
    IN ExistingOnly(fsys, [ k \in 1..Len(lines) |-> Spell(lines[k], Dots(source)) ])

\* fs::exists(relative_path) throws filesystem_error for a path longer than
\* the file system accepts
ExistsThrows(incl, source) ==
    LET lines == incl[LexicallyNormal(source)]
    IN \E k \in 1..Len(lines) : Dots(source) + Dots(lines[k]) > MaxDots

\* analyze_source_file
AnalyzeSourceFile(fsys, incl, source) ==
    [ file_path |-> source,
      dependencies |-> GetDependencies(fsys, incl, source),
      last_modified_time |-> TimeMin ]

\* find_source_file: the index of the first entry of that path, 0 for end()
FindSourceFile(srcs, p) ==
    IF \E i \in 1..Len(srcs) : srcs[i].file_path = p
    THEN CHOOSE i \in 1..Len(srcs) :
            /\ srcs[i].file_path = p
            /\ \A j \in 1..(i - 1) : srcs[j].file_path # p
    ELSE 0

\* .max(initial) over the last_modified_time of the dependencies found in srcs
RECURSIVE DependenciesLastModified(_, _, _)
DependenciesLastModified(srcs, deps, acc) ==
    IF deps = << >> THEN acc
    ELSE LET i == FindSourceFile(srcs, Head(deps))
             t == IF i = 0 THEN acc ELSE Max(acc, srcs[i].last_modified_time)
         IN DependenciesLastModified(srcs, Tail(deps), t)

\* add_source_file: a file already in the list is left alone; a new one is
\* appended with the time stamp min, its dependencies are added recursively,
\* and its time becomes the maximum of its own disk time and the times its
\* dependencies have in the list at that moment
RECURSIVE AddSourceFile(_, _, _, _), AddDependencies(_, _, _, _)
AddSourceFile(fsys, incl, srcs, source) ==
    IF FindSourceFile(srcs, source) # 0 THEN srcs
    ELSE LET s1 == Append(srcs, AnalyzeSourceFile(fsys, incl, source))
             source_index == Len(s1)
             s2 == AddDependencies(fsys, incl, s1, s1[source_index].dependencies)
             dependencies_last_modified ==
                 DependenciesLastModified(s2, s2[source_index].dependencies, TimeMin)
         IN [ s2 EXCEPT ![source_index].last_modified_time =
                  Max(LastWriteTime(fsys, source), dependencies_last_modified) ]

AddDependencies(fsys, incl, srcs, deps) ==
    IF deps = << >> THEN srcs
    ELSE AddDependencies(fsys, incl, AddSourceFile(fsys, incl, srcs, Head(deps)), Tail(deps))

\* the filter does not look at the configuration file
NonUpdatedSourcesIgnoringConfig(fsys, srcs, dependency_file_last_update, config_last_update) ==
    SelectSeq(srcs, LAMBDA s :
        /\ Exists(fsys, s.file_path)
        /\ s.last_modified_time < dependency_file_last_update)

\* the filter of analyze_source_files: the entries carried over unchanged
NonUpdatedSources(fsys, srcs, dependency_file_last_update, config_last_update) ==
    SelectSeq(srcs, LAMBDA s :
        /\ Exists(fsys, s.file_path)
        /\ s.last_modified_time < dependency_file_last_update
        /\ config_last_update < dependency_file_last_update)

\* analyze_source_files
AnalyzeSourceFiles(fsys, incl, files, srcs, dependency_file_last_update, config_last_update) ==
    AddDependencies(fsys, incl,
        NonUpdatedSources(fsys, srcs, dependency_file_last_update, config_last_update),
        files)

\* get_and_fill_last_modified_time: returns the time and the updated list.
\* An entry whose time is not min is returned as it is (the memo); otherwise
\* the entry is seeded with its disk time, then set to the maximum over its
\* dependencies.  A path that is in no entry fails the assertion (bad).
RECURSIVE GetAndFillLastModifiedTime(_, _, _), FillMax(_, _, _, _, _)
GetAndFillLastModifiedTime(fsys, file, srcs) ==
    LET i == FindSourceFile(srcs, file) IN
    IF i = 0 THEN [ t |-> TimeMin, s |-> srcs, bad |-> TRUE ]
    ELSE IF srcs[i].last_modified_time # TimeMin
    THEN [ t |-> srcs[i].last_modified_time, s |-> srcs, bad |-> FALSE ]
    ELSE LET seeded == [ srcs EXCEPT ![i].last_modified_time = LastWriteTime(fsys, file) ]
             r == FillMax(fsys, seeded[i].dependencies, seeded,
                          seeded[i].last_modified_time, FALSE)
         IN [ t |-> r.t, s |-> [ r.s EXCEPT ![i].last_modified_time = r.t ], bad |-> r.bad ]

\* .transform(get_and_fill_last_modified_time).max(initial)
FillMax(fsys, deps, srcs, acc, bad) ==
    IF deps = << >> THEN [ t |-> acc, s |-> srcs, bad |-> bad ]
    ELSE LET r == GetAndFillLastModifiedTime(fsys, Head(deps), srcs)
         IN FillMax(fsys, Tail(deps), r.s, Max(acc, r.t), bad \/ r.bad)

\* fill_last_modified_times: every entry in list order
RECURSIVE FillFrom(_, _, _, _)
FillFrom(fsys, srcs, k, bad) ==
    IF k > Len(srcs) THEN [ s |-> srcs, bad |-> bad ]
    ELSE LET r == FillMax(fsys, srcs[k].dependencies, srcs,
                          LastWriteTime(fsys, srcs[k].file_path), FALSE)
         IN FillFrom(fsys, [ r.s EXCEPT ![k].last_modified_time = r.t ], k + 1, bad \/ r.bad)

FillLastModifiedTimes(fsys, srcs) == FillFrom(fsys, srcs, 1, FALSE)

\* the dependency file of the build configuration
DependencyFile == "dependencies.json"

\* the content of a dependency file that does not exist
NoDocument == [ parses |-> FALSE, is_object |-> FALSE, members |-> << >> ]

\* the names are written, the dependency arrays are left empty
WriteDependencyJsonNamesOnly(srcs) ==
    [ parses |-> TRUE,
      is_object |-> TRUE,
      members |-> [ i \in 1..Len(srcs) |->
          [ name |-> srcs[i].file_path, is_array |-> TRUE, value |-> << >> ] ] ]

\* write_dependency_json: a JSON object with one member per entry, whose name
\* is the path of the entry and whose value is the array of its dependency
\* paths
WriteDependencyJson(srcs) ==
    [ parses |-> TRUE,
      is_object |-> TRUE,
      members |-> [ i \in 1..Len(srcs) |->
          [ name |-> srcs[i].file_path,
            is_array |-> TRUE,
            value |-> [ k \in 1..Len(srcs[i].dependencies) |->
                          [ is_string |-> TRUE, text |-> srcs[i].dependencies[k] ] ] ] ] ]

\* the loop starts at the second element
ReadValuesFromSecond(fsys, values) ==
    [ dependencies |->
          SelectSeq([ k \in 1..(Len(values) - 1) |-> LexicallyNormal(values[k + 1].text) ],
                    LAMBDA q : Exists(fsys, q)),
      error |-> IF \E k \in 1..Len(values) : ~values[k].is_string
                THEN "an error occurred while parsing" ELSE "" ]

\* the loop over the elements of one member: the normalised paths that exist,
\* an error at the first element that is not a string
RECURSIVE ReadValues(_, _)
ReadValues(fsys, values) ==
    IF values = << >> THEN [ dependencies |-> << >>, error |-> "" ]
    ELSE IF ~Head(values).is_string
    THEN [ dependencies |-> << >>, error |-> "an error occurred while parsing" ]
    ELSE LET path == LexicallyNormal(Head(values).text)
             rest == ReadValues(fsys, Tail(values))
         IN [ dependencies |-> IF Exists(fsys, path)
                               THEN << path >> \o rest.dependencies
                               ELSE rest.dependencies,
              error |-> rest.error ]

\* the loop over the members: a member whose file is gone is skipped before
\* its value is looked at, a value that is not an array is an error, every
\* time stamp starts at min
RECURSIVE ReadMembers(_, _)
ReadMembers(fsys, members) ==
    IF members = << >> THEN [ source_files |-> << >>, error |-> "" ]
    ELSE LET m == Head(members)
             name_path == LexicallyNormal(m.name)
         IN
         IF ~Exists(fsys, name_path) THEN ReadMembers(fsys, Tail(members))
         ELSE IF ~m.is_array
         THEN [ source_files |-> << >>, error |-> "an error occurred while parsing" ]
         ELSE LET v == ReadValues(fsys, m.value)
                  rest == ReadMembers(fsys, Tail(members))
              IN IF v.error # "" THEN [ source_files |-> << >>, error |-> v.error ]
                 ELSE IF rest.error # "" THEN rest
                 ELSE [ source_files |->
                            << [ file_path |-> name_path,
                                 dependencies |-> v.dependencies,
                                 last_modified_time |-> TimeMin ] >> \o rest.source_files,
                        error |-> "" ]

\* read_dependency_json: no file is no entries and no error; a file that does
\* not parse, or whose top level is not an object, is an error
ReadDependencyJson(fsys, json) ==
    IF ~Exists(fsys, DependencyFile) THEN [ source_files |-> << >>, error |-> "" ]
    ELSE IF ~json.parses \/ ~json.is_object
    THEN [ source_files |-> << >>, error |-> "an error occurred while parsing" ]
    ELSE ReadMembers(fsys, json.members)


(***************************************************************************)
(* process.cpp, POSIX branch: the exit_code of a process_result is the raw *)
(* status word waitpid stores, in which a child that exits with code c is  *)
(* recorded as c shifted left by eight bits.                               *)
(***************************************************************************)
ExitShift == 256
ChildCodes == { 0, 1, 2 }

\* run_process: result.exit_code = status
RunProcessExitCode(code) == code * ExitShift

(***************************************************************************)
(* main.cpp: the rule engine.                                              *)
(*                                                                         *)
(* A rule is [rule_name, is_file, dependencies, commands].  What a command *)
(* does is an input: oracle[command] = [code, makes], the code the shell   *)
(* exits with and whether the command writes the file of its rule.  The    *)
(* state a run threads through is [fs, ran]: the disk and the commands     *)
(* executed so far.                                                        *)
(***************************************************************************)
CommandOutcomes ==
    { [ code |-> 0, makes |-> TRUE ], [ code |-> 0, makes |-> FALSE ],
      [ code |-> 1, makes |-> FALSE ], [ code |-> 2, makes |-> FALSE ] }

\* std::find_if over the rules: the index of the first rule of that name, 0 for end()
FindRule(rules, rule_to_run) ==
    IF \E i \in 1..Len(rules) : rules[i].rule_name = rule_to_run
    THEN CHOOSE i \in 1..Len(rules) :
            /\ rules[i].rule_name = rule_to_run
            /\ \A j \in 1..(i - 1) : rules[j].rule_name # rule_to_run
    ELSE 0

\* a value-initialized run_rule_result_t, returned next to a non-empty error
\* (its time stamp is never read: every caller tests the error first)
RuleError(message, st) ==
    [ exit_code |-> 0, any_run |-> FALSE, last_update_time |-> TimeMin,
      error |-> message, crash |-> "", st |-> st ]

\* the process ends inside run_rule: the call stack is exhausted, or
\* fs::last_write_time throws on a path that does not exist
RuleCrash(reason, st) ==
    [ exit_code |-> 0, any_run |-> FALSE, last_update_time |-> TimeMin,
      error |-> "", crash |-> reason, st |-> st ]

\* the commands of a rule, in declared order; the first nonzero exit code
\* ends the rule
RECURSIVE RunRuleCommands(_, _, _, _, _, _)
RunRuleCommands(rule, rule_to_run, commands, result, oracle, now) ==
    IF commands = << >>
    THEN IF rule.is_file /\ Exists(result.st.fs, rule_to_run)
         THEN [ result EXCEPT !.last_update_time = LastWriteTime(result.st.fs, rule_to_run) ]
         ELSE result
    ELSE LET command == Head(commands)
             out == oracle[command]
             disk == IF out.makes /\ rule.is_file
                     THEN [ result.st.fs EXCEPT ![rule_to_run] = now ]
                     ELSE result.st.fs
             exit_code == RunProcessExitCode(out.code)
             st1 == [ fs |-> disk,
                      ran |-> Append(result.st.ran, << rule.rule_name, command, exit_code >>) ]
         IN IF exit_code # 0
            THEN [ result EXCEPT !.exit_code = exit_code, !.st = st1 ]
            ELSE RunRuleCommands(rule, rule_to_run, Tail(commands),
                                 [ result EXCEPT !.st = st1 ], oracle, now)

\* a name that is neither rule nor file is never an error
UnknownRuleIsErrorNever(error_on_unknown_rule, exists) == FALSE

\* run_rule: error_on_unknown_rule && !fs::exists(rule_path)
UnknownRuleIsError(error_on_unknown_rule, exists) == error_on_unknown_rule /\ ~exists

\* the exit code of a dependency is not looked at
DependencyFailedNever(exit_code) == FALSE

\* run_rule, in the loop over the dependencies: exit_code != 0
DependencyFailed(exit_code) == exit_code # 0

\* the time stamps of the dependencies are not looked at
ShouldRunCommandsByConfigOnly(is_file, exists, last_rule_write_time, config_last_update, last_update_time) ==
    \/ ~is_file
    \/ ~exists
    \/ last_rule_write_time < config_last_update

\* run_rule: the condition under which the commands of a rule run
ShouldRunCommands(is_file, exists, last_rule_write_time, config_last_update, last_update_time) ==
    \/ ~is_file
    \/ ~exists
    \/ last_rule_write_time < Max(config_last_update, last_update_time)

\* run_rule
RECURSIVE RunRule(_, _, _, _, _, _, _, _), RunRuleDependencies(_, _, _, _, _, _, _, _)
RunRule(rules, rule_to_run, config_last_update, error_on_unknown_rule, st, oracle, now, depth) ==
    IF depth > StackLimit THEN RuleCrash("stack overflow", st)
    ELSE
    LET it == FindRule(rules, rule_to_run) IN
    IF it = 0
    THEN IF UnknownRuleIsError(error_on_unknown_rule, Exists(st.fs, rule_to_run))
         THEN RuleError("is not a rule name or a file: " \o rule_to_run, st)
         ELSE IF ~Exists(st.fs, rule_to_run)
         THEN RuleCrash("filesystem_error", st)
         ELSE [ exit_code |-> 0, any_run |-> FALSE,
                last_update_time |-> LastWriteTime(st.fs, rule_to_run),
                error |-> "", crash |-> "", st |-> st ]
    ELSE
    LET rule == rules[it]
        last_rule_write_time ==
            IF Exists(st.fs, rule_to_run) THEN LastWriteTime(st.fs, rule_to_run) ELSE TimeMin
        first == [ exit_code |-> 0, any_run |-> FALSE,
                   last_update_time |-> IF rule.is_file THEN last_rule_write_time ELSE TimeMin,
                   error |-> "", crash |-> "", st |-> st ]
        result == RunRuleDependencies(rules, rule.dependencies, config_last_update,
                                      error_on_unknown_rule, first, oracle, now, depth)
    IN IF result.crash # "" \/ result.error # "" \/ result.exit_code # 0
       THEN result
       ELSE IF ShouldRunCommands(rule.is_file, Exists(result.st.fs, rule_to_run),
                                 last_rule_write_time, config_last_update,
                                 result.last_update_time)
       THEN RunRuleCommands(rule, rule_to_run, rule.commands,
                            [ result EXCEPT !.any_run = TRUE ], oracle, now)
       ELSE result

\* the loop of run_rule over the dependencies of a rule
RunRuleDependencies(rules, dependencies, config_last_update, error_on_unknown_rule, result, oracle, now, depth) ==
    IF dependencies = << >> THEN result
    ELSE LET r == RunRule(rules, Head(dependencies), config_last_update,
                          error_on_unknown_rule, result.st, oracle, now, depth + 1)
         IN IF r.crash # "" THEN RuleCrash(r.crash, r.st)
            ELSE IF r.error # "" THEN RuleError(r.error, r.st)
            ELSE LET merged == [ result EXCEPT
                                   !.any_run = result.any_run \/ r.any_run,
                                   !.last_update_time = Max(result.last_update_time, r.last_update_time),
                                   !.st = r.st ]
                 IN IF DependencyFailed(r.exit_code)
                    THEN [ merged EXCEPT !.exit_code = r.exit_code ]
                    ELSE RunRuleDependencies(rules, Tail(dependencies), config_last_update,
                                             error_on_unknown_rule, merged, oracle, now, depth)

\* run_rules: the rules of one point of the build, in list order
RECURSIVE RunRulesFrom(_, _, _, _, _, _, _)
RunRulesFrom(rules, rules_to_run, config_last_update, error_on_unknown_rule, acc, oracle, now) ==
    IF rules_to_run = << >> THEN acc
    ELSE LET r == RunRule(rules, Head(rules_to_run), config_last_update,
                          error_on_unknown_rule, acc.st, oracle, now, 1)
             merged == [ exit_code |-> r.exit_code,
                         any_run |-> acc.any_run \/ r.any_run,
                         last_update_time |-> Max(acc.last_update_time, r.last_update_time),
                         error |-> r.error, crash |-> r.crash, st |-> r.st ]
         IN IF r.crash # "" \/ r.exit_code # 0 \/ r.error # ""
            THEN merged
            ELSE RunRulesFrom(rules, Tail(rules_to_run), config_last_update,
                              error_on_unknown_rule, merged, oracle, now)

RunRules(rules, rules_to_run, config_last_update, error_on_unknown_rule, st, oracle, now) ==
    RunRulesFrom(rules, rules_to_run, config_last_update, error_on_unknown_rule,
                 [ exit_code |-> 0, any_run |-> FALSE, last_update_time |-> config_last_update,
                   error |-> "", crash |-> "", st |-> st ],
                 oracle, now)


(***************************************************************************)
(* main.cpp: the staleness gates.                                          *)
(***************************************************************************)
ConfigFile == "cppb.json"
ExecutableFile == "app"

\* path::filename(): the path without its directories.  The source directory
\* of the model has one subdirectory, sub, with translation units in it.
Filename(p) ==
    IF \E k \in 1..MaxInvocations : p = "sub/u" \o ToString(k) \o ".cpp"
    THEN "u" \o ToString(CHOOSE k \in 1..MaxInvocations : p = "sub/u" \o ToString(k) \o ".cpp") \o ".cpp"
    ELSE p

\* object_files.emplace_back(intermediate_bin_directory / source_file.filename()) += ".o"
ObjectFile(source_file) == Filename(source_file) \o ".o"
\* compiler_kind::gcc: the header path with ".gch" appended
PchFile(header_file) == header_file \o ".gch"

\* the filter that yields compilation_units
IsCompilationUnit(source) == source.file_path \in TranslationUnits
IsCSource(source_file) == source_file = "r.c"

\* the time of the precompiled header is not looked at
ShouldCompileIgnoringPch(rebuild, object_last_write_time, source_last_modified_time, dependency_last_update, pch_last_update) ==
    \/ rebuild
    \/ object_last_write_time < source_last_modified_time
    \/ object_last_write_time < dependency_last_update

\* the time of the configuration and the pre-build rules is not looked at
ShouldCompileIgnoringDependencyUpdate(rebuild, object_last_write_time, source_last_modified_time, dependency_last_update, pch_last_update) ==
    \/ rebuild
    \/ object_last_write_time < source_last_modified_time
    \/ object_last_write_time < pch_last_update

\* the condition under which a translation unit is compiled
ShouldCompile(rebuild, object_last_write_time, source_last_modified_time, dependency_last_update, pch_last_update) ==
    \/ rebuild
    \/ object_last_write_time < source_last_modified_time
    \/ object_last_write_time < dependency_last_update
    \/ object_last_write_time < pch_last_update

\* the condition under which a precompiled header is compiled
ShouldPrecompile(rebuild, pch_last_write_time, header_last_modified_time, dependency_last_update) ==
    \/ rebuild
    \/ pch_last_write_time < header_last_modified_time
    \/ pch_last_write_time < dependency_last_update

\* the object files are not looked at
ShouldLinkIgnoringObjects(force_link, executable_exists, executable_last_write_time, last_object_write_time) ==
    \/ force_link
    \/ ~executable_exists

\* link_project: the condition under which the linker runs
ShouldLink(force_link, executable_exists, executable_last_write_time, last_object_write_time) ==
    \/ force_link
    \/ ~executable_exists
    \/ executable_last_write_time < last_object_write_time

\* object_files.transform(last_write_time).max(dependency_last_update)
RECURSIVE MaxWriteTime(_, _, _)
MaxWriteTime(fsys, paths, acc) ==
    IF paths = << >> THEN acc
    ELSE MaxWriteTime(fsys, Tail(paths), Max(acc, LastWriteTime(fsys, Head(paths))))

\* the order source_files.sort gives: paths of more components first, paths
\* of as many components in the order of their text
PathOrder == << "a.cpp", "b.h", "c.h", "r.c", "y.h" >>

RECURSIVE SortFrom(_, _, _)
SortFrom(srcs, n, k) ==
    IF n < 0 THEN << >>
    ELSE IF k > Len(PathOrder) THEN SortFrom(srcs, n - 1, 1)
    ELSE SelectSeq(srcs, LAMBDA s : s.file_path = Spell(PathOrder[k], n))
         \o SortFrom(srcs, n, k + 1)

SortSources(srcs) == SortFrom(srcs, MaxDots, 1)

(***************************************************************************)
(* main.cpp: the results of the compiler invocations.                      *)
(***************************************************************************)
\* what one captured compiler run can yield: the child's exit code and the
\* numbers of "error:" and "warning:" found in its output
CompileOutcomes ==
    { [ code |-> 0, error_count |-> 0, warning_count |-> 0 ],
      [ code |-> 0, error_count |-> 0, warning_count |-> 1 ],
      [ code |-> 0, error_count |-> 1, warning_count |-> 0 ],
      [ code |-> 1, error_count |-> 1, warning_count |-> 1 ],
      [ code |-> 2, error_count |-> 0, warning_count |-> 0 ] }

ProcessResult(out, capture) ==
    [ exit_code |-> RunProcessExitCode(out.code),
      error_count |-> IF capture THEN out.error_count ELSE 0,
      warning_count |-> IF capture THEN out.warning_count ELSE 0 ]

\* warnings fail the compilation too
IsGoodWithoutWarnings(compilation_results) ==
    \A i \in 1..Len(compilation_results) :
        /\ compilation_results[i].exit_code = 0
        /\ compilation_results[i].error_count = 0
        /\ compilation_results[i].warning_count = 0

\* build_project_async: is_good after the loop over compilation_results
IsGood(compilation_results) ==
    \A i \in 1..Len(compilation_results) :
        /\ compilation_results[i].exit_code = 0
        /\ compilation_results[i].error_count = 0

\* a compilation that is not good is reported as a success
BuildProjectAsyncExitCodeZero(is_good) == 0

\* build_project_async: what it returns after the loop over compilation_results
BuildProjectAsyncExitCode(is_good) == IF is_good THEN 0 ELSE 1

(***************************************************************************)
(* The project the builds of Spec run on.                                  *)
(***************************************************************************)
\* one file rule run before the build, a rule that is no file before the
\* link, a library made by a file rule, a rule that is no file after the build
BuildRules ==
    << [ rule_name |-> "gen", is_file |-> TRUE,
         dependencies |-> << >>, commands |-> << "cmd_gen" >> ],
       [ rule_name |-> "check", is_file |-> FALSE,
         dependencies |-> << >>, commands |-> << "cmd_check" >> ],
       [ rule_name |-> "lib.a", is_file |-> TRUE,
         dependencies |-> << >>, commands |-> << "cmd_lib" >> ],
       [ rule_name |-> "post", is_file |-> FALSE,
         dependencies |-> << >>, commands |-> << "cmd_post" >> ] >>

PchChoices == { << "", "" >>, << "c.h", "b.h" >> }
\* the pre-build rule of the project, or a name that is neither rule nor file
PrebuildChoices == { << "gen" >>, << "no-rule" >> }

BuildConfigs ==
    { [ c_precompiled_header |-> h[1],
        cpp_precompiled_header |-> h[2],
        excluded_sources |-> << >>,
        prebuild_rules |-> pre,
        prelink_rules |-> << "check" >>,
        postbuild_rules |-> << "post" >>,
        link_dependencies |-> << "lib.a" >> ] : h \in PchChoices, pre \in PrebuildChoices }

\* the library made by a rule, or a name that is neither rule nor file
LinkDependencyChoices == { << "lib.a" >>, << "no-lib" >> }
\* no source excluded, or the C source excluded
ExcludedChoices == { << >>, << "r.c" >> }

\* the configurations of SpecProject
ProjectConfigs ==
    { [ c_precompiled_header |-> "",
        cpp_precompiled_header |-> "",
        excluded_sources |-> ex,
        prebuild_rules |-> pre,
        prelink_rules |-> << "check" >>,
        postbuild_rules |-> << "post" >>,
        link_dependencies |-> ld ] :
      ex \in ExcludedChoices, ld \in LinkDependencyChoices, pre \in { << "gen" >>, << "check" >> } }

\* every file includes at most one header
IncludeLists == { << >> } \cup { << h >> : h \in Headers }
Layouts == [ SourceTree -> IncludeLists ]
DirOrders == { << "a.cpp", "r.c" >>, << "r.c", "a.cpp" >> }

\* sequential (-s or one job) or concurrent, --rebuild, --link
BuildOptions ==
    { [ sequential |-> q, rebuild |-> FALSE, link |-> FALSE ] : q \in BOOLEAN }
\* the same with --rebuild and --link
AllBuildOptions ==
    { [ sequential |-> q, rebuild |-> r, link |-> l ] :
        q \in BOOLEAN, r \in BOOLEAN, l \in BOOLEAN }
NoOptions == [ sequential |-> FALSE, rebuild |-> FALSE, link |-> FALSE ]

RuleNames(rs) == { rs[i].rule_name : i \in 1..Len(rs) }
CommandsOf(rs) == UNION { Range(rs[i].commands) : i \in 1..Len(rs) }

Paths ==
    SourceTree
    \cup { ObjectFile(t) : t \in TranslationUnits }
    \cup { PchFile(h) : h \in Headers }
    \cup { ConfigFile, DependencyFile, ExecutableFile }
    \cup RuleNames(BuildRules)
    \cup UNION { Range(pre) : pre \in PrebuildChoices }
    \cup UNION { Range(ld) : ld \in LinkDependencyChoices }

\* hash_file: the digest of the content of a file, "" when it cannot be
\* read; the content of a file of the model is known by the time it was written
HashFile(fsys, filename) == IF Exists(fsys, filename) THEN ToString(fsys[filename]) ELSE ""

\* build_project_async: the compiler and the arguments of one invocation
CompilerOf(source_file) == IF IsCSource(source_file) THEN "cc" ELSE "c++"
ArgsOf(source_file) == << "-o", ObjectFile(source_file), source_file >>

\* the outputs of the compiler, and the value read_output_file_info_json
\* gives for an output that has none (std::nullopt)
OutputFiles == { ObjectFile(t) : t \in TranslationUnits } \cup { PchFile(h) : h \in Headers }
NoInfo == [ compiler |-> "", args |-> << >>, hash |-> "" ]

NoLocals ==
    [ prebuild_last_update |-> TimeMin,
      build_dependency_last_update |-> TimeMin,
      c_pch_last_update |-> TimeMin,
      cpp_pch_last_update |-> TimeMin,
      object_files |-> << >>,
      any_cpp |-> FALSE,
      prelink_last_update |-> TimeMin,
      link_dep_last_update |-> TimeMin ]

\* fill_last_modified_times and analyze_source_files not running.  A frame of
\* stack is one call: fn is "fill" (the body of the loop of
\* fill_last_modified_times), "get" (get_and_fill_last_modified_time) or
\* "add" (add_source_file); index is the position of its entry, 0 until the
\* call has looked for it; k is the dependency it handles next; acc is the
\* maximum it has folded so far.  next is the position of the loop of the
\* caller; sources_in and the two times are what analyze_source_files was
\* given, scanned the paths analyze_source_file was called for.
NoAnalysis ==
    [ phase |-> "", stack |-> << >>, next |-> 1, sources_in |-> << >>, scanned |-> << >>,
      dependency_file_last_update |-> TimeMin, config_last_update |-> TimeMin ]

\* no thread_pool has been constructed
NoPool ==
    [ state |-> "", thread_count |-> 0, semaphore |-> 0, tasks |-> << >>, threads |-> << >>,
      pushed |-> << >> ]

NoSched ==
    [ compilation_futures |-> << >>, next_index_to_report |-> 0, i |-> 0,
      position |-> 0, submitted |-> << >>, after_failure |-> { } ]

\* the names reachable from the rules a stage runs
RECURSIVE ReachableNames(_, _, _)
ReachableNames(rs, names, n) ==
    IF n = 0 THEN names
    ELSE ReachableNames(rs,
            names \cup UNION { Range(rs[i].dependencies) :
                               i \in { j \in 1..Len(rs) : rs[j].rule_name \in names } },
            n - 1)

\* what the commands a stage can reach do: in the builds of Spec a command
\* either succeeds and writes the file of its rule, or fails
BuildCommandOutcomes == { o \in CommandOutcomes : o.makes = (o.code = 0) }
BuildOracles(rs, rules_to_run) ==
    [ CommandsOf(SelectSeq(rs, LAMBDA r :
          r.rule_name \in ReachableNames(rs, Range(rules_to_run), Len(rs))))
      -> BuildCommandOutcomes ]
\* what the commands the run of one rule can reach do
RuleOracles(rs, rule_to_run) ==
    [ CommandsOf(SelectSeq(rs, LAMBDA r :
          r.rule_name \in ReachableNames(rs, { rule_to_run }, Len(rs))))
      -> CommandOutcomes ]

(***************************************************************************)
(* main.cpp: build_project.  The stages in the order of its statements; a  *)
(* stage that fails returns from build_project.                            *)
(***************************************************************************)
\* the link dependencies are made before the pre-link rules run
StageAfterLinkDependenciesFirst(stage) ==
    CASE stage = "prebuild" -> "analyze"
      [] stage = "analyze" -> "pch"
      [] stage = "pch" -> "compile"
      [] stage = "compile" -> "linkdep"
      [] stage = "linkdep" -> "prelink"
      [] stage = "prelink" -> "link"
      [] stage = "link" -> "postbuild"
      [] stage = "postbuild" -> "exited"

StageAfter(stage) ==
    CASE stage = "prebuild" -> "analyze"
      [] stage = "analyze" -> "pch"
      [] stage = "pch" -> "compile"
      [] stage = "compile" -> "prelink"
      [] stage = "prelink" -> "linkdep"
      [] stage = "linkdep" -> "link"
      [] stage = "link" -> "postbuild"
      [] stage = "postbuild" -> "exited"

\* the result of a stage is not looked at
AfterStageIgnoringFailure(stage, failed) == StageAfter(stage)

AfterStage(stage, failed) == IF failed THEN "exited" ELSE StageAfter(stage)

\* a stage ended: with an exit code, with an error message (build_project
\* then returns 1), or well.  child is the exit code of the command that
\* failed the stage, 0 when no command did.
Finish(stage, code, error, child) ==
    LET failed == code # 0 \/ error # "" IN
    /\ trace' = Append(trace, [ stage |-> stage, exit_code |-> code,
                                error |-> error, child |-> child ])
    /\ pc' = AfterStage(stage, failed)
    /\ build_result' = IF error # "" THEN 1 ELSE code
    /\ crash' = crash

\* the process ended inside the stage
Abort(stage, reason) ==
    /\ trace' = Append(trace, [ stage |-> stage, exit_code |-> 0,
                                error |-> "", child |-> 0 ])
    /\ pc' = "exited"
    /\ crash' = reason
    /\ build_result' = build_result

RuleStageDone(stage, r) ==
    IF r.crash # "" THEN Abort(stage, r.crash)
    ELSE Finish(stage, r.exit_code, r.error, r.exit_code \div ExitShift)

Written(old, new) == { p \in DOMAIN old : old[p] # new[p] }

\* the command is started, later than everything that happened before;
\* read_dependency_json loads the dependency file, and its error ends
\* build_project with 1.  A behaviour ends with the first build that fails.
BeginBuildWith(options) ==
    /\ pc = "idle"
    /\ nbuilds > 0 => prev_ok
    /\ clock' = clock + 1
    /\ \E o \in options : opts' = o
    /\ nbuilds' = nbuilds + 1
    /\ LET read == ReadDependencyJson(fs, depjson)
       IN /\ source_files' = read.source_files
          /\ pc' = IF read.error # "" THEN "exited" ELSE "prebuild"
          /\ build_result' = IF read.error # "" THEN 1 ELSE build_result
    /\ UNCHANGED << config_objects, source_text, pool, analysis, output_file_infos, includes, dir_order, fs, depjson, cfg, all_rules, loc, trace,
                    checked, invocations, results, linked, ran, crash,
                    ntouches, changed, prev_ok, sched, stdout >>

BeginBuild == BeginBuildWith(BuildOptions)

\* one of the builds of a behaviour
StartBuild ==
    /\ nbuilds < MaxBuilds
    /\ BeginBuild

\* the build run once more, right after the last build, with nothing changed
Rebuild ==
    /\ nbuilds = MaxBuilds
    /\ changed = { }
    /\ BeginBuild

\* run_rules("pre-build", ...)
PreBuild ==
    /\ pc = "prebuild"
    /\ \E oracle \in BuildOracles(all_rules, cfg.prebuild_rules) :
         LET r == RunRules(all_rules, cfg.prebuild_rules, LastWriteTime(fs, ConfigFile),
                           TRUE, [ fs |-> fs, ran |-> ran ], oracle, clock)
         IN /\ fs' = r.st.fs
            /\ ran' = r.st.ran
            /\ changed' = changed \cup Written(fs, r.st.fs)
            /\ loc' = [ loc EXCEPT !.prebuild_last_update = r.last_update_time ]
            /\ RuleStageDone("prebuild", r)
    /\ UNCHANGED << config_objects, source_text, pool, analysis, output_file_infos, includes, dir_order, clock, depjson, cfg, all_rules, opts, source_files,
                    checked, invocations, results, linked, nbuilds, ntouches, prev_ok, sched, stdout >>

\* fill_last_modified_times, analyze_source_files, sort, write_dependency_json
Analyze ==
    /\ pc = "analyze"
    /\ LET config_last_update == LastWriteTime(fs, ConfigFile)
           filled == FillLastModifiedTimes(fs, source_files)
           dependency_file_last_update ==
               IF Exists(fs, DependencyFile) THEN LastWriteTime(fs, DependencyFile) ELSE TimeMin
           analyzed == AnalyzeSourceFiles(fs, includes, dir_order, filled.s,
                                          dependency_file_last_update, config_last_update)
           sorted == SortSources(analyzed)
       IN IF filled.bad
          THEN /\ Abort("analyze", "assertion")
               /\ UNCHANGED << source_files, depjson, fs, loc >>
          ELSE /\ source_files' = sorted
               /\ depjson' = WriteDependencyJson(sorted)
               /\ fs' = [ fs EXCEPT ![DependencyFile] = clock ]
               /\ loc' = [ loc EXCEPT !.build_dependency_last_update =
                               Max(config_last_update, loc.prebuild_last_update) ]
               /\ Finish("analyze", 0, "", 0)
    /\ UNCHANGED << config_objects, source_text, pool, analysis, output_file_infos, includes, dir_order, clock, cfg, all_rules, opts, checked, invocations,
                    results, linked, ran, nbuilds, ntouches, changed, prev_ok, sched, stdout >>

\* one precompiled-header block of build_project_async / build_project_sequential
PchBlock(header_file, srcs, fsys, dependency_last_update, rebuild, code, now) ==
    IF header_file = ""
    THEN [ exit_code |-> 0, child |-> 0, pch_last_update |-> TimeMin, fs |-> fsys, run |-> FALSE ]
    ELSE
    LET header_it == FindSourceFile(srcs, header_file)
        pch_file == PchFile(header_file)
        pch_last_write_time ==
            IF Exists(fsys, pch_file) THEN LastWriteTime(fsys, pch_file) ELSE TimeMin
    IN IF header_it = 0
       THEN [ exit_code |-> 1, child |-> 0, pch_last_update |-> TimeMin, fs |-> fsys, run |-> FALSE ]
       ELSE IF ShouldPrecompile(rebuild, pch_last_write_time,
                                srcs[header_it].last_modified_time, dependency_last_update)
       THEN IF RunProcessExitCode(code) # 0
            THEN [ exit_code |-> RunProcessExitCode(code), child |-> code,
                   pch_last_update |-> pch_last_write_time, fs |-> fsys, run |-> TRUE ]
            ELSE [ exit_code |-> 0, child |-> 0, pch_last_update |-> now,
                   fs |-> [ fsys EXCEPT ![pch_file] = now ], run |-> TRUE ]
       ELSE [ exit_code |-> 0, child |-> 0, pch_last_update |-> pch_last_write_time,
              fs |-> fsys, run |-> FALSE ]

\* the precompiled headers: the C header, then the C++ header
Pch ==
    /\ pc = "pch"
    /\ \E c_code \in ChildCodes, cpp_code \in ChildCodes :
         LET c == PchBlock(cfg.c_precompiled_header, source_files, fs,
                           loc.build_dependency_last_update, opts.rebuild, c_code, clock)
             cpp == PchBlock(cfg.cpp_precompiled_header, source_files, c.fs,
                             loc.build_dependency_last_update, opts.rebuild, cpp_code, clock)
         IN IF c.exit_code # 0
            THEN /\ fs' = c.fs
                 /\ UNCHANGED loc
                 /\ Finish("pch", c.exit_code, "", c.child)
            ELSE /\ fs' = cpp.fs
                 /\ loc' = [ loc EXCEPT !.c_pch_last_update = c.pch_last_update,
                                        !.cpp_pch_last_update = cpp.pch_last_update ]
                 /\ Finish("pch", cpp.exit_code, "", cpp.child)
    /\ UNCHANGED << config_objects, source_text, pool, analysis, output_file_infos, includes, dir_order, clock, depjson, cfg, all_rules, opts, source_files,
                    checked, invocations, results, linked, ran, nbuilds, ntouches,
                    changed, prev_ok, sched, stdout >>

\* the staleness decision for one compilation unit
IsStale(fsys, source, rebuild, locals) ==
    LET object_file == ObjectFile(source.file_path)
        object_last_write_time ==
            IF Exists(fsys, object_file) THEN LastWriteTime(fsys, object_file) ELSE TimeMin
    IN ShouldCompile(rebuild, object_last_write_time, source.last_modified_time,
                     locals.build_dependency_last_update,
                     IF IsCSource(source.file_path)
                     THEN locals.c_pch_last_update ELSE locals.cpp_pch_last_update)

CompilationUnits(srcs) == SelectSeq(srcs, IsCompilationUnit)

ObjectFiles(units) == [ i \in 1..Len(units) |-> ObjectFile(units[i].file_path) ]

\* every compiler run that exits with 0 leaves its object file behind
RECURSIVE WriteObjects(_, _, _, _)
WriteObjects(fsys, files, res, now) ==
    IF files = << >> THEN fsys
    ELSE WriteObjects(
            IF Head(res).exit_code = 0
            THEN [ fsys EXCEPT ![ObjectFile(Head(files))] = now ] ELSE fsys,
            Tail(files), Tail(res), now)

FirstFailedChild(outs) ==
    IF \E i \in 1..Len(outs) : outs[i].code # 0
    THEN outs[CHOOSE i \in 1..Len(outs) :
                 outs[i].code # 0 /\ \A j \in 1..(i - 1) : outs[j].code = 0].code
    ELSE 0

\* build_project_async from the loop over the compilation units on
CompileAsync ==
    /\ pc = "compile"
    /\ ~opts.sequential
    /\ LET units == CompilationUnits(source_files)
           stale == SelectSeq(units, LAMBDA u : IsStale(fs, u, opts.rebuild, loc))
           files == [ i \in 1..Len(stale) |-> stale[i].file_path ]
       IN \E outs \in [ 1..Len(stale) -> CompileOutcomes ] :
            LET res == [ i \in 1..Len(stale) |-> ProcessResult(outs[i], TRUE) ]
            IN /\ checked' = [ i \in 1..Len(units) |-> units[i].file_path ]
               /\ invocations' = files
               /\ results' = res
               /\ fs' = WriteObjects(fs, files, res, clock)
               /\ loc' = [ loc EXCEPT
                     !.object_files = ObjectFiles(units),
                     !.any_cpp = \E i \in 1..Len(units) : ~IsCSource(units[i].file_path) ]
               /\ Finish("compile", BuildProjectAsyncExitCode(IsGood(res)), "", FirstFailedChild(outs))
    /\ UNCHANGED << config_objects, source_text, pool, analysis, output_file_infos, includes, dir_order, clock, depjson, cfg, all_rules, opts, source_files,
                    linked, ran, nbuilds, ntouches, changed, prev_ok, sched, stdout >>

\* build_project_sequential: the units one after the other, the first
\* compiler run that fails returns its exit code
RECURSIVE SequentialFrom(_, _, _, _, _, _)
SequentialFrom(units, k, acc, rebuild, codes, now) ==
    IF k > Len(units) THEN acc
    ELSE LET u == units[k]
             seen == [ acc EXCEPT !.checked = Append(acc.checked, u.file_path) ]
         IN IF IsStale(acc.fs, u, rebuild, acc.loc)
            THEN LET res == ProcessResult([ code |-> codes[u.file_path],
                                            error_count |-> 0, warning_count |-> 0 ], FALSE)
                     run == [ seen EXCEPT !.invocations = Append(seen.invocations, u.file_path),
                                          !.results = Append(seen.results, res) ]
                 IN IF res.exit_code # 0
                    THEN [ run EXCEPT !.exit_code = res.exit_code,
                                      !.child = codes[u.file_path] ]
                    ELSE SequentialFrom(units, k + 1,
                             [ run EXCEPT !.fs = [ run.fs EXCEPT
                                                    ![ObjectFile(u.file_path)] = now ] ],
                             rebuild, codes, now)
            ELSE SequentialFrom(units, k + 1, seen, rebuild, codes, now)

CompileSequential ==
    /\ pc = "compile"
    /\ opts.sequential
    /\ LET units == CompilationUnits(source_files)
       IN \E codes \in [ TranslationUnits -> ChildCodes ] :
            LET r == SequentialFrom(units, 1,
                        [ fs |-> fs, loc |-> loc, checked |-> << >>, invocations |-> << >>,
                          results |-> << >>, exit_code |-> 0, child |-> 0 ],
                        opts.rebuild, codes, clock)
            IN /\ checked' = r.checked
               /\ invocations' = r.invocations
               /\ results' = r.results
               /\ fs' = r.fs
               /\ loc' = [ loc EXCEPT
                     !.object_files = ObjectFiles(units),
                     !.any_cpp = \E i \in 1..Len(units) : ~IsCSource(units[i].file_path) ]
               /\ Finish("compile", r.exit_code, "", r.child)
    /\ UNCHANGED << config_objects, source_text, pool, analysis, output_file_infos, includes, dir_order, clock, depjson, cfg, all_rules, opts, source_files,
                    linked, ran, nbuilds, ntouches, changed, prev_ok, sched, stdout >>

\* a stage of rules after the compilation
RuleStage(stage, rules_to_run, error_on_unknown_rule) ==
    /\ pc = stage
    /\ \E oracle \in BuildOracles(all_rules, rules_to_run) :
         LET r == RunRules(all_rules, rules_to_run, LastWriteTime(fs, ConfigFile),
                           error_on_unknown_rule, [ fs |-> fs, ran |-> ran ], oracle, clock)
         IN /\ fs' = r.st.fs
            /\ ran' = r.st.ran
            /\ changed' = changed \cup Written(fs, r.st.fs)
            /\ loc' = IF stage = "prelink"
                      THEN [ loc EXCEPT !.prelink_last_update = r.last_update_time ]
                      ELSE IF stage = "linkdep"
                      THEN [ loc EXCEPT !.link_dep_last_update = r.last_update_time ]
                      ELSE loc
            /\ RuleStageDone(stage, r)
    /\ UNCHANGED << config_objects, source_text, pool, analysis, output_file_infos, includes, dir_order, clock, depjson, cfg, all_rules, opts, source_files,
                    checked, invocations, results, linked, nbuilds, ntouches, prev_ok, sched, stdout >>

PreLink == RuleStage("prelink", cfg.prelink_rules, TRUE)
LinkDependencies == RuleStage("linkdep", cfg.link_dependencies, FALSE)
PostBuild == RuleStage("postbuild", cfg.postbuild_rules, TRUE)

\* link_project
Link ==
    /\ pc = "link"
    /\ LET link_dependency_last_update ==
               Max(Max(LastWriteTime(fs, ConfigFile), loc.prelink_last_update),
                   loc.link_dep_last_update)
           last_object_write_time ==
               MaxWriteTime(fs, loc.object_files, link_dependency_last_update)
       IN IF \E i \in 1..Len(loc.object_files) : ~Exists(fs, loc.object_files[i])
          THEN /\ Abort("link", "filesystem_error")
               /\ UNCHANGED << fs, linked >>
          ELSE IF ShouldLink(opts.link, Exists(fs, ExecutableFile),
                             LastWriteTime(fs, ExecutableFile), last_object_write_time)
          THEN \E code \in ChildCodes :
                 /\ linked' = linked + 1
                 /\ fs' = IF code = 0 THEN [ fs EXCEPT ![ExecutableFile] = clock ] ELSE fs
                 /\ Finish("link", RunProcessExitCode(code), "", code)
          ELSE /\ UNCHANGED << fs, linked >>
               /\ Finish("link", 0, "", 0)
    /\ UNCHANGED << config_objects, source_text, pool, analysis, output_file_infos, includes, dir_order, clock, depjson, cfg, all_rules, opts, source_files,
                    loc, checked, invocations, results, ran, nbuilds, ntouches,
                    changed, prev_ok, sched, stdout >>

\* the process has ended; what the build leaves behind is on disk
EndBuild ==
    /\ pc = "exited"
    /\ pc' = "idle"
    /\ prev_ok' = (crash = "" /\ build_result = 0)
    /\ changed' = { }
    /\ opts' = NoOptions
    /\ source_files' = << >>
    /\ loc' = NoLocals
    /\ trace' = << >>
    /\ checked' = << >>
    /\ invocations' = << >>
    /\ results' = << >>
    /\ linked' = 0
    /\ ran' = << >>
    /\ build_result' = 0
    /\ crash' = ""
    /\ UNCHANGED << config_objects, source_text, pool, analysis, output_file_infos, includes, dir_order, fs, clock, depjson, cfg, all_rules, nbuilds, ntouches, sched, stdout >>

\* the user saves a file between two builds; every path that names the file
\* shows its new time
Touch(f) ==
    /\ pc = "idle"
    /\ nbuilds > 0
    /\ ntouches < MaxTouches
    /\ clock' = clock + 1
    /\ fs' = [ p \in DOMAIN fs |-> IF LexicallyNormal(p) = f THEN clock + 1 ELSE fs[p] ]
    /\ ntouches' = ntouches + 1
    /\ changed' = changed \cup { f }
    /\ UNCHANGED << config_objects, source_text, pool, analysis, output_file_infos, includes, dir_order, depjson, cfg, all_rules, pc, opts, source_files, loc,
                    trace, checked, invocations, results, linked, ran, build_result, crash,
                    nbuilds, prev_ok, sched, stdout >>

\* a fresh checkout: the sources and the configuration file, nothing built
Init ==
    /\ includes \in Layouts
    /\ dir_order \in DirOrders
    /\ fs = [ p \in Paths |-> IF p \in SourceTree \cup { ConfigFile } THEN 1 ELSE NoFile ]
    /\ clock = 1
    /\ depjson = NoDocument
    /\ cfg \in BuildConfigs
    /\ all_rules = BuildRules
    /\ pc = "idle"
    /\ opts = NoOptions
    /\ source_files = << >>
    /\ loc = NoLocals
    /\ trace = << >>
    /\ checked = << >>
    /\ invocations = << >>
    /\ results = << >>
    /\ linked = 0
    /\ ran = << >>
    /\ build_result = 0
    /\ crash = ""
    /\ nbuilds = 0
    /\ ntouches = 0
    /\ changed = { }
    /\ prev_ok = FALSE
    /\ sched = NoSched
    /\ pool = NoPool
    /\ source_text = << >>
    /\ config_objects = << >>
    /\ stdout = << >>
    /\ output_file_infos = [ o \in OutputFiles |-> NoInfo ]
    /\ analysis = NoAnalysis

Next ==
    \/ StartBuild
    \/ PreBuild
    \/ Analyze
    \/ Pch
    \/ CompileAsync
    \/ CompileSequential
    \/ PreLink
    \/ LinkDependencies
    \/ Link
    \/ PostBuild
    \/ EndBuild
    \/ \E f \in SourceTree : Touch(f)

vars == << config_objects, source_text, pool, analysis, output_file_infos, includes, dir_order, fs, clock, depjson, cfg, all_rules, pc, opts, source_files, loc,
          trace, checked, invocations, results, linked, ran, build_result, crash,
          nbuilds, ntouches, changed, prev_ok, sched, stdout >>
Spec == Init /\ [][Next]_vars

\* the builds of Spec, followed by one more build of the unchanged project
NextRepeat ==
    \/ Next
    \/ Rebuild
SpecRepeat == Init /\ [][NextRepeat]_vars

(***************************************************************************)
(* SpecProject: the builds of one small project (a.cpp includes b.h, r.c   *)
(* includes c.h) under every command line option and under configurations *)
(* that exclude a source, name a link dependency that does not exist, or   *)
(* have a pre-build rule that is a file or is not; between two builds a    *)
(* source or the configuration file is saved, or the dependency file is    *)
(* damaged.                                                                *)
(***************************************************************************)
StartBuildWithOptions ==
    /\ nbuilds < MaxBuilds
    /\ BeginBuildWith(AllBuildOptions)

InitProject ==
    /\ includes = [ f \in SourceTree |->
                      IF f = "a.cpp" THEN << "b.h" >>
                      ELSE IF f = "r.c" THEN << "c.h" >> ELSE << >> ]
    /\ dir_order = << "a.cpp", "r.c" >>
    /\ fs = [ p \in Paths |-> IF p \in SourceTree \cup { ConfigFile } THEN 1 ELSE NoFile ]
    /\ clock = 1
    /\ depjson = NoDocument
    /\ cfg \in ProjectConfigs
    /\ all_rules = BuildRules
    /\ pc = "idle"
    /\ opts = NoOptions
    /\ source_files = << >>
    /\ loc = NoLocals
    /\ trace = << >>
    /\ checked = << >>
    /\ invocations = << >>
    /\ results = << >>
    /\ linked = 0
    /\ ran = << >>
    /\ build_result = 0
    /\ crash = ""
    /\ nbuilds = 0
    /\ ntouches = 0
    /\ changed = { }
    /\ prev_ok = FALSE
    /\ sched = NoSched
    /\ pool = NoPool
    /\ source_text = << >>
    /\ config_objects = << >>
    /\ stdout = << >>
    /\ output_file_infos = [ o \in OutputFiles |-> NoInfo ]
    /\ analysis = NoAnalysis

\* the dependency file is damaged between two builds: it is left differing
\* from what was written in one place read_dependency_json rejects (the text
\* does not parse, the top level is not an object, the value of a member is
\* not an array, an element of an array is not a string)
DamageCache ==
    /\ pc = "idle"
    /\ nbuilds > 0
    /\ ntouches < MaxTouches
    /\ Exists(fs, DependencyFile)
    /\ \/ depjson' = [ depjson EXCEPT !.parses = FALSE ]
       \/ depjson' = [ depjson EXCEPT !.is_object = FALSE ]
       \/ \E i \in 1..Len(depjson.members) :
            \/ depjson' = [ depjson EXCEPT !.members[i].is_array = FALSE ]
            \/ \E k \in 1..Len(depjson.members[i].value) :
                 depjson' = [ depjson EXCEPT !.members[i].value[k].is_string = FALSE ]
    /\ clock' = clock + 1
    /\ fs' = [ fs EXCEPT ![DependencyFile] = clock + 1 ]
    /\ ntouches' = ntouches + 1
    /\ changed' = changed \cup { DependencyFile }
    /\ UNCHANGED << config_objects, source_text, pool, analysis, output_file_infos, includes, dir_order, cfg, all_rules, pc, opts, source_files, loc,
                    trace, checked, invocations, results, linked, ran, build_result, crash,
                    nbuilds, prev_ok, sched, stdout >>

NextProject ==
    \/ DamageCache
    \/ StartBuildWithOptions
    \/ PreBuild
    \/ Analyze
    \/ Pch
    \/ CompileAsync
    \/ CompileSequential
    \/ PreLink
    \/ LinkDependencies
    \/ Link
    \/ PostBuild
    \/ EndBuild
    \/ \E f \in SourceTree \cup { ConfigFile } : Touch(f)
SpecProject == InitProject /\ [][NextProject]_vars

(***************************************************************************)
(* SpecAnalyze: the dependency refresh of build_project run call by call.  *)
(* Every call and return of get_and_fill_last_modified_time and of         *)
(* add_source_file is a step; include lines may spell their target with a  *)
(* redundant level, and files or the configuration are saved between two   *)
(* refreshes.                                                              *)
(***************************************************************************)
Top == analysis.stack[Len(analysis.stack)]

\* the top frame returns t to the frame below it, which folds it with max
Return(t) ==
    LET below == SubSeq(analysis.stack, 1, Len(analysis.stack) - 1)
    IN IF below = << >> THEN below
       ELSE [ below EXCEPT ![Len(below)].acc = Max(below[Len(below)].acc, t) ]

AnalysisFrame ==
    UNCHANGED << config_objects, source_text, pool, output_file_infos, includes, dir_order, fs, clock, depjson, cfg, all_rules, opts, loc,
                 trace, checked, invocations, results, linked, ran, build_result,
                 nbuilds, ntouches, changed, prev_ok, sched, stdout >>

\* build_project up to fill_last_modified_times: the dependency file is read
BeginAnalysis ==
    /\ pc = "idle"
    /\ nbuilds < MaxBuilds
    /\ clock' = clock + 1
    /\ nbuilds' = nbuilds + 1
    /\ source_files' = ReadDependencyJson(fs, depjson).source_files
    /\ analysis' = [ NoAnalysis EXCEPT !.phase = "fill" ]
    /\ pc' = "analyze"
    /\ UNCHANGED << config_objects, source_text, pool, output_file_infos, includes, dir_order, fs, depjson, cfg, all_rules, opts, loc,
                    trace, checked, invocations, results, linked, ran, build_result, crash,
                    ntouches, changed, prev_ok, sched, stdout >>

\* fill_last_modified_times: the body of its loop starts for the next entry,
\* the fold begins with the disk time of the entry
FillNext ==
    /\ pc = "analyze" /\ analysis.phase = "fill" /\ analysis.stack = << >>
    /\ analysis.next <= Len(source_files)
    /\ LET file == source_files[analysis.next].file_path
       IN analysis' = [ analysis EXCEPT !.stack =
              << [ fn |-> "fill", file |-> file, index |-> analysis.next, k |-> 1,
                   acc |-> LastWriteTime(fs, file) ] >> ]
    /\ UNCHANGED << source_files, pc, crash >>
    /\ AnalysisFrame

\* get_and_fill_last_modified_time is entered: the assertion, the memo, or
\* the entry is seeded with its disk time
GetAndFillEnter ==
    /\ pc = "analyze" /\ analysis.stack # << >>
    /\ Top.fn = "get" /\ Top.index = 0
    /\ LET it == FindSourceFile(source_files, Top.file)
       IN IF it = 0
          THEN /\ pc' = "exited"
               /\ crash' = "assertion"
               /\ UNCHANGED << source_files, analysis >>
          ELSE IF source_files[it].last_modified_time # TimeMin
          THEN /\ analysis' = [ analysis EXCEPT
                       !.stack = Return(source_files[it].last_modified_time) ]
               /\ UNCHANGED << source_files, pc, crash >>
          ELSE /\ source_files' = [ source_files EXCEPT
                       ![it].last_modified_time = LastWriteTime(fs, Top.file) ]
               /\ analysis' = [ analysis EXCEPT !.stack[Len(analysis.stack)] =
                       [ Top EXCEPT !.index = it, !.k = 1,
                                    !.acc = LastWriteTime(fs, Top.file) ] ]
               /\ UNCHANGED << pc, crash >>
    /\ AnalysisFrame

\* the loop over the dependencies of an entry calls the function for the
\* next dependency: get_and_fill_last_modified_time in the fill, add_source_file
\* in the analysis
CallForDependency ==
    /\ pc = "analyze" /\ analysis.stack # << >>
    /\ Top.index # 0
    /\ Top.k <= Len(source_files[Top.index].dependencies)
    /\ analysis' = [ analysis EXCEPT !.stack =
           Append([ analysis.stack EXCEPT ![Len(analysis.stack)].k = Top.k + 1 ],
                  [ fn |-> IF Top.fn = "add" THEN "add" ELSE "get",
                    file |-> source_files[Top.index].dependencies[Top.k],
                    index |-> 0, k |-> 0, acc |-> TimeMin ]) ]
    /\ UNCHANGED << source_files, pc, crash >>
    /\ AnalysisFrame

\* the fold over the dependencies is done: the entry gets the maximum, which
\* get_and_fill_last_modified_time also returns
FillReturn ==
    /\ pc = "analyze" /\ analysis.stack # << >>
    /\ Top.fn \in { "fill", "get" } /\ Top.index # 0
    /\ Top.k > Len(source_files[Top.index].dependencies)
    /\ source_files' = [ source_files EXCEPT ![Top.index].last_modified_time = Top.acc ]
    /\ analysis' = [ analysis EXCEPT
           !.stack = Return(Top.acc),
           !.next = IF Top.fn = "fill" THEN analysis.next + 1 ELSE analysis.next ]
    /\ UNCHANGED << pc, crash >>
    /\ AnalysisFrame

\* fill_last_modified_times has returned; analyze_source_files keeps the
\* entries that pass its filter
AnalyzeSourceFilesBegin ==
    /\ pc = "analyze" /\ analysis.phase = "fill" /\ analysis.stack = << >>
    /\ analysis.next > Len(source_files)
    /\ LET dependency_file_last_update ==
               IF Exists(fs, DependencyFile) THEN LastWriteTime(fs, DependencyFile) ELSE TimeMin
           config_last_update == LastWriteTime(fs, ConfigFile)
       IN /\ source_files' = NonUpdatedSources(fs, source_files,
                  dependency_file_last_update, config_last_update)
          /\ analysis' = [ analysis EXCEPT
                  !.phase = "add", !.next = 1, !.sources_in = source_files,
                  !.dependency_file_last_update = dependency_file_last_update,
                  !.config_last_update = config_last_update ]
    /\ UNCHANGED << pc, crash >>
    /\ AnalysisFrame

\* analyze_source_files: add_source_file is called for the next file of the
\* source directory
AddNext ==
    /\ pc = "analyze" /\ analysis.phase = "add" /\ analysis.stack = << >>
    /\ analysis.next <= Len(dir_order)
    /\ analysis' = [ analysis EXCEPT !.stack =
                                         << [ fn |-> "add", file |-> dir_order[analysis.next],
                                              index |-> 0, k |-> 0, acc |-> TimeMin ] >>,
                                     !.next = analysis.next + 1 ]
    /\ UNCHANGED << source_files, pc, crash >>
    /\ AnalysisFrame

\* add_source_file is entered: a path that is in the list returns at once,
\* another one is scanned and appended
AddSourceFileEnter ==
    /\ pc = "analyze" /\ analysis.stack # << >>
    /\ Top.fn = "add" /\ Top.index = 0
    /\ IF FindSourceFile(source_files, Top.file) # 0
       THEN /\ analysis' = [ analysis EXCEPT !.stack = Return(TimeMin) ]
            /\ UNCHANGED << source_files, pc, crash >>
       ELSE IF ExistsThrows(includes, Top.file)
       THEN /\ pc' = "exited"
            /\ crash' = "filesystem_error"
            /\ UNCHANGED << source_files, analysis >>
       ELSE /\ source_files' = Append(source_files, AnalyzeSourceFile(fs, includes, Top.file))
            /\ analysis' = [ analysis EXCEPT
                    !.stack[Len(analysis.stack)] =
                        [ Top EXCEPT !.index = Len(source_files) + 1, !.k = 1 ],
                    !.scanned = Append(analysis.scanned, Top.file) ]
            /\ UNCHANGED << pc, crash >>
    /\ AnalysisFrame

\* add_source_file after its loop: the time of the entry is set from its
\* disk time and the times its dependencies have in the list
AddSourceFileReturn ==
    /\ pc = "analyze" /\ analysis.stack # << >>
    /\ Top.fn = "add" /\ Top.index # 0
    /\ Top.k > Len(source_files[Top.index].dependencies)
    /\ source_files' = [ source_files EXCEPT ![Top.index].last_modified_time =
           Max(LastWriteTime(fs, Top.file),
               DependenciesLastModified(source_files,
                   source_files[Top.index].dependencies, TimeMin)) ]
    /\ analysis' = [ analysis EXCEPT !.stack = Return(TimeMin) ]
    /\ UNCHANGED << pc, crash >>
    /\ AnalysisFrame

\* analyze_source_files has returned; source_files.sort and
\* write_dependency_json follow, the rest of the build is left out
AnalyzeSourceFilesEnd ==
    /\ pc = "analyze" /\ analysis.phase = "add" /\ analysis.stack = << >>
    /\ analysis.next > Len(dir_order)
    /\ source_files' = SortSources(source_files)
    /\ depjson' = WriteDependencyJson(SortSources(source_files))
    /\ fs' = [ fs EXCEPT ![DependencyFile] = clock ]
    /\ analysis' = [ analysis EXCEPT !.phase = "done" ]
    /\ pc' = "idle"
    /\ changed' = { }
    /\ UNCHANGED << config_objects, source_text, pool, output_file_infos, includes, dir_order, clock, cfg, all_rules, opts, loc,
                    trace, checked, invocations, results, linked, ran, build_result, crash,
                    nbuilds, ntouches, prev_ok, sched, stdout >>

\* the user takes the include lines out of a file and saves it
Edit(f) ==
    /\ pc = "idle"
    /\ nbuilds > 0
    /\ includes[f] # << >>
    /\ includes' = [ includes EXCEPT ![f] = << >> ]
    /\ clock' = clock + 1
    /\ fs' = [ fs EXCEPT ![f] = clock + 1 ]
    /\ changed' = changed \cup { f }
    /\ UNCHANGED << config_objects, source_text, pool, analysis, output_file_infos, dir_order, depjson, cfg, all_rules, pc, opts,
                    source_files, loc, trace, checked, invocations, results, linked, ran,
                    build_result, crash, nbuilds, ntouches, prev_ok, sched, stdout >>

\* what the include line of a file may say: nothing, or a header, spelled
\* plainly or with one redundant level
IncludeLines(targets) == { << >> } \cup { << Spell(h, n) >> : h \in targets, n \in 0..1 }

InitAnalyze ==
    /\ \/ includes \in { [ f \in SourceTree \cup { "y.h" } |->
                            IF f = "a.cpp" THEN a ELSE IF f = "r.c" THEN r
                            ELSE IF f = "b.h" THEN b ELSE IF f = "c.h" THEN c ELSE << >> ] :
                          a \in IncludeLines(Headers), r \in IncludeLines({ "b.h" }),
                          b \in IncludeLines(Headers), c \in IncludeLines({ "b.h" }) }
       \/ includes \in { [ f \in SourceTree \cup { "y.h" } |->
                            IF f = "a.cpp" THEN << "b.h" >> ELSE IF f = "r.c" THEN << "y.h" >>
                            ELSE IF f = "b.h" THEN b ELSE IF f = "c.h" THEN << >> ELSE y ] :
                          b \in { << "y.h", "c.h" >>, << "c.h", "y.h" >> },
                          y \in { << >>, << "b.h" >> } }
    /\ dir_order = << "a.cpp", "r.c" >>
    /\ \E present \in { SourceTree, SourceTree \ { "c.h" } } :
         fs = [ p \in Paths \cup { "y.h" } \cup { Spell(h, n) : h \in Headers, n \in 1..MaxDots } |->
                  IF LexicallyNormal(p) \in present \cup { "y.h", ConfigFile } THEN 1 ELSE NoFile ]
    /\ clock = 1
    /\ depjson = NoDocument
    /\ cfg \in { c \in BuildConfigs : c.c_precompiled_header = "" /\ c.prebuild_rules = << "gen" >> }
    /\ all_rules = BuildRules
    /\ pc = "idle"
    /\ opts = NoOptions
    /\ source_files = << >>
    /\ loc = NoLocals
    /\ trace = << >>
    /\ checked = << >>
    /\ invocations = << >>
    /\ results = << >>
    /\ linked = 0
    /\ ran = << >>
    /\ build_result = 0
    /\ crash = ""
    /\ nbuilds = 0
    /\ ntouches = 0
    /\ changed = { }
    /\ prev_ok = FALSE
    /\ sched = NoSched
    /\ pool = NoPool
    /\ source_text = << >>
    /\ config_objects = << >>
    /\ stdout = << >>
    /\ output_file_infos = [ o \in OutputFiles |-> NoInfo ]
    /\ analysis = NoAnalysis

NextAnalyze ==
    \/ BeginAnalysis
    \/ FillNext
    \/ GetAndFillEnter
    \/ CallForDependency
    \/ FillReturn
    \/ AnalyzeSourceFilesBegin
    \/ AddNext
    \/ AddSourceFileEnter
    \/ AddSourceFileReturn
    \/ AnalyzeSourceFilesEnd
    \/ \E f \in SourceTree \cup { ConfigFile } : Touch(f)
    \/ Edit("a.cpp")
SpecAnalyze == InitAnalyze /\ [][NextAnalyze]_vars

(***************************************************************************)
(* SpecResolve: get_dependencies applied to one file of the directory src  *)
(* that holds one include line for x.h, written in quotes or in angle      *)
(* brackets, under every choice of search directories and of the places    *)
(* where an x.h exists.                                                    *)
(***************************************************************************)
\* the transform of get_dependencies for one include line: the path of the
\* file it resolves to, the empty path when it resolves to none
ResolveIncludeOwnDirectoryAlways(fsys, source_directory, include_directories, include) ==
    LET own == source_directory \o "/" \o include.path
        hits == { k \in 1..Len(include_directories) :
                    Exists(fsys, include_directories[k] \o "/" \o include.path) }
    IN IF Exists(fsys, own) THEN own
       ELSE IF hits = { } THEN ""
       ELSE include_directories[CHOOSE k \in hits : \A j \in hits : k <= j] \o "/" \o include.path

ResolveInclude(fsys, source_directory, include_directories, include) ==
    LET own == source_directory \o "/" \o include.path
        hits == { k \in 1..Len(include_directories) :
                    Exists(fsys, include_directories[k] \o "/" \o include.path) }
    IN IF ~include.is_library /\ Exists(fsys, own) THEN own
       ELSE IF hits = { } THEN ""
       ELSE include_directories[CHOOSE k \in hits : \A j \in hits : k <= j] \o "/" \o include.path

\* analyze_source_file for src/a.cpp: the include lines are resolved and the
\* empty paths filtered out
AnalyzeOneFile ==
    /\ pc = "resolve"
    /\ source_files' =
           << [ file_path |-> "src/a.cpp",
                dependencies |->
                    SelectSeq([ k \in 1..Len(includes) |->
                                  ResolveInclude(fs, "src", cfg.include_paths, includes[k]) ],
                              LAMBDA q : q # ""),
                last_modified_time |-> TimeMin ] >>
    /\ pc' = "resolved"
    /\ UNCHANGED << config_objects, source_text, pool, analysis, output_file_infos, includes, dir_order, fs, clock, depjson, cfg, all_rules, opts,
                    loc, trace, checked, invocations, results, linked, ran, build_result, crash,
                    nbuilds, ntouches, changed, prev_ok, sched, stdout >>

InitResolve ==
    /\ includes \in { << [ path |-> "x.h", is_library |-> b ] >> : b \in BOOLEAN }
    /\ dir_order = << "src/a.cpp" >>
    /\ fs \in [ { "src/x.h", "inc1/x.h", "inc2/x.h" } -> { NoFile, 1 } ]
    /\ clock = 1
    /\ depjson = NoDocument
    /\ cfg \in { [ include_paths |-> dirs ] :
                   dirs \in { << >>, << "inc1" >>, << "inc1", "inc2" >>, << "inc2", "inc1" >> } }
    /\ all_rules = << >>
    /\ pc = "resolve"
    /\ opts = NoOptions
    /\ source_files = << >>
    /\ loc = NoLocals
    /\ trace = << >>
    /\ checked = << >>
    /\ invocations = << >>
    /\ results = << >>
    /\ linked = 0
    /\ ran = << >>
    /\ build_result = 0
    /\ crash = ""
    /\ nbuilds = 0
    /\ ntouches = 0
    /\ changed = { }
    /\ prev_ok = FALSE
    /\ sched = NoSched
    /\ pool = NoPool
    /\ source_text = << >>
    /\ config_objects = << >>
    /\ stdout = << >>
    /\ output_file_infos = [ o \in OutputFiles |-> NoInfo ]
    /\ analysis = NoAnalysis

NextResolve == AnalyzeOneFile
SpecResolve == InitResolve /\ [][NextResolve]_vars

(***************************************************************************)
(* SpecScan: get_includes applied to one file.  The content of the file is *)
(* a sequence of characters; a run of characters that the scanner treats   *)
(* alike is written as one element: the identifiers "include", "else" and  *)
(* "int", and a file name such as "1.h".  '#', ' ', '\n', '/', '*', '"'    *)
(* are single characters.                                                  *)
(***************************************************************************)
\* get_includes: the include lines of the text, in the order of the text
GetIncludes(file) ==
    LET end == Len(file) + 1
        IsIdentifier(c) == c \in { "include", "else", "int" }
        RECURSIVE Text(_, _)
        Text(from, to) == IF from >= to THEN "" ELSE file[from] \o Text(from + 1, to)
        RECURSIVE SkipWhitespace(_)
        SkipWhitespace(it) == IF it # end /\ file[it] = " " THEN SkipWhitespace(it + 1) ELSE it
        RECURSIVE Find(_, _)
        Find(it, c) == IF it = end \/ file[it] = c THEN it ELSE Find(it + 1, c)
        RECURSIVE IdentifierEnd(_)
        IdentifierEnd(it) == IF it # end /\ IsIdentifier(file[it]) THEN IdentifierEnd(it + 1) ELSE it
        RECURSIVE BlockCommentEnd(_)
        BlockCommentEnd(it) ==
            IF it # end /\ it + 1 # end /\ ~(file[it] = "*" /\ file[it + 1] = "/")
            THEN BlockCommentEnd(it + 1)
            ELSE IF it + 1 = end THEN it + 1
            ELSE IF it # end THEN it + 2
            ELSE it
        RECURSIVE find_next_hash(_, _)
        find_next_hash(it, is_line_begin) ==
            IF it = end THEN it
            ELSE IF file[it] = "\n" THEN find_next_hash(it + 1, TRUE)
            ELSE IF file[it] = " " THEN find_next_hash(it + 1, is_line_begin)
            ELSE IF file[it] = "#"
                 THEN IF is_line_begin THEN it ELSE find_next_hash(it + 1, is_line_begin)
            ELSE IF file[it] = "/"
                 THEN IF it + 1 # end /\ file[it + 1] = "*"
                      THEN find_next_hash(BlockCommentEnd(it + 2), is_line_begin)
                      ELSE IF it + 1 # end /\ file[it + 1] = "/"
                      THEN find_next_hash(Find(it + 2, "\n"), is_line_begin)
                      ELSE find_next_hash(it + 1, FALSE)
            ELSE find_next_hash(it + 1, FALSE)
        is_include_directive(it) ==
            IF it = end THEN [ value |-> FALSE, it |-> it ]
            ELSE LET directive_begin == SkipWhitespace(it + 1)
                     directive_end == IdentifierEnd(directive_begin)
                 IN [ value |-> Text(directive_begin, directive_end) = "include",
                      it |-> directive_end ]
        get_include_file(it, result) ==
            LET open == SkipWhitespace(it)
            IN IF open = end THEN [ result |-> result, it |-> open ]
               ELSE IF file[open] = "<"
               THEN [ result |-> Append(result, [ path |-> Text(open + 1, Find(open + 1, ">")),
                                                  is_library |-> TRUE ]),
                      it |-> Find(open + 1, ">") ]
               ELSE IF file[open] = "\""
               THEN [ result |-> Append(result, [ path |-> Text(open + 1, Find(open + 1, "\"")),
                                                  is_library |-> FALSE ]),
                      it |-> Find(open + 1, "\"") ]
               ELSE [ result |-> result, it |-> open ]
        RECURSIVE Loop(_, _)
        Loop(it, result) ==
            IF it = end THEN result
            ELSE LET directive == is_include_directive(find_next_hash(it, TRUE))
                 IN IF directive.value
                    THEN LET got == get_include_file(directive.it, result)
                         IN Loop(got.it, got.result)
                    ELSE Loop(directive.it, result)
    IN Loop(1, << >>)

\* analyze_source_file reads the include lines of the file
ScanFile ==
    /\ pc = "scan"
    /\ includes' = GetIncludes(source_text)
    /\ pc' = "scanned"
    /\ UNCHANGED << config_objects, source_text, pool, analysis, output_file_infos, dir_order, fs, clock, depjson, cfg,
                    all_rules, opts, source_files, loc, trace, checked, invocations, results, linked,
                    ran, build_result, crash, nbuilds, ntouches, changed, prev_ok, sched, stdout >>

\* the file is put together from up to MaxPieces pieces: an include line
\* (the k-th piece names the file k.h), a token, another directive, the
\* opening of a line comment or of a block comment, the end of a block
\* comment, the end of the line
InitScan ==
    /\ \E n \in 1..MaxPieces :
         \E kinds \in [ 1..n -> { "include", "token", "else", "//", "/*", "*/", "\n" } ] :
            LET Piece(k) ==
                    IF kinds[k] = "include"
                    THEN << "#", "include", " ", "\"", ToString(k) \o ".h", "\"" >>
                    ELSE IF kinds[k] = "token" THEN << "int", " " >>
                    ELSE IF kinds[k] = "else" THEN << "#", "else", " " >>
                    ELSE IF kinds[k] = "//" THEN << "/", "/", " " >>
                    ELSE IF kinds[k] = "/*" THEN << "/", "*", " " >>
                    ELSE IF kinds[k] = "*/" THEN << " ", "*", "/" >>
                    ELSE << "\n" >>
                RECURSIVE Join(_)
                Join(k) == IF k > n THEN << >> ELSE Piece(k) \o Join(k + 1)
            IN source_text = Join(1)
    /\ config_objects = << >>
    /\ includes = << >>
    /\ pc = "scan"
    /\ dir_order = << >>
    /\ fs = [ p \in Paths |-> NoFile ]
    /\ clock = 1
    /\ depjson = NoDocument
    /\ cfg = [ include_paths |-> << >> ]
    /\ all_rules = << >>
    /\ opts = NoOptions
    /\ source_files = << >>
    /\ loc = NoLocals
    /\ trace = << >>
    /\ checked = << >>
    /\ invocations = << >>
    /\ results = << >>
    /\ linked = 0
    /\ ran = << >>
    /\ build_result = 0
    /\ crash = ""
    /\ nbuilds = 0
    /\ ntouches = 0
    /\ changed = { }
    /\ prev_ok = FALSE
    /\ sched = NoSched
    /\ pool = NoPool
    /\ stdout = << >>
    /\ output_file_infos = [ o \in OutputFiles |-> NoInfo ]
    /\ analysis = NoAnalysis

SpecScan == InitScan /\ [][ScanFile]_vars

(***************************************************************************)
(* SpecConfigs: get_project_configs resolves the inheritance (depends_on)   *)
(* of the configurations of a configuration file, one call of              *)
(* resolve_project_config at a time.  config_objects.stack holds the calls *)
(* in progress, the innermost last; a call is "entered" before its first   *)
(* statement and "called" while its recursive call runs.                    *)
(***************************************************************************)

ResolveProjectConfigAnyErrorState ==
    /\ pc = "resolve_project_config"
    /\ LET co == config_objects
           frame == co.stack[Len(co.stack)]
           c == frame.config
           object == co.list[c]
           ReturnWith(state, error) ==
               /\ config_objects' = [ co EXCEPT !.list[c].state = state, !.error = error,
                                                !.stack = SubSeq(co.stack, 1, Len(co.stack) - 1) ]
               /\ pc' = IF Len(co.stack) = 1 THEN "get_project_configs" ELSE pc
       IN IF frame.at = "entered"
          THEN IF object.state = "all"
               THEN ReturnWith("all", co.error)
               ELSE IF object.state = "resolving"
               THEN ReturnWith("circular_error",
                           "circular dependency encountered in config file; '" \o object.name \o "'")
               ELSE IF object.depends_on = "<no member>"
               THEN ReturnWith(IF co.error # "" THEN "error" ELSE "all", co.error)
               ELSE IF object.depends_on = "<not a string>"
               THEN ReturnWith("error", "value of member 'depends_on' in configuration file must be a 'String'")
               ELSE IF \A i \in 1..Len(co.list) : co.list[i].name # object.depends_on
               THEN ReturnWith("error", "invalid value '" \o object.depends_on
                                    \o "' for member 'depends_on', there's no such configuration")
               ELSE LET it == CHOOSE i \in 1..Len(co.list) :
                                 /\ co.list[i].name = object.depends_on
                                 /\ \A j \in 1..(i - 1) : co.list[j].name # object.depends_on
                    IN /\ config_objects' =
                              [ co EXCEPT !.list[c].state = "resolving",
                                          !.stack = SubSeq(co.stack, 1, Len(co.stack) - 1)
                                                    \o << [ config |-> c, at |-> "called", it |-> it ],
                                                          [ config |-> it, at |-> "entered", it |-> 0 ] >> ]
                       /\ pc' = pc
          ELSE ReturnWith(IF co.error # "" THEN "error" ELSE "all", co.error)
    /\ UNCHANGED << source_text, pool, analysis, output_file_infos, includes, dir_order, fs, clock, depjson, cfg,
                    all_rules, opts, source_files, loc, trace, checked, invocations, results, linked,
                    ran, build_result, crash, nbuilds, ntouches, changed, prev_ok, sched, stdout >>

\* resolve_project_config, from its first statement to its recursive call
\* and from the return of that call to its own return
ResolveProjectConfig ==
    /\ pc = "resolve_project_config"
    /\ LET co == config_objects
           frame == co.stack[Len(co.stack)]
           c == frame.config
           object == co.list[c]
           ReturnWith(state, error) ==
               /\ config_objects' = [ co EXCEPT !.list[c].state = state, !.error = error,
                                                !.stack = SubSeq(co.stack, 1, Len(co.stack) - 1) ]
               /\ pc' = IF Len(co.stack) = 1 THEN "get_project_configs" ELSE pc
       IN IF frame.at = "entered"
          THEN IF object.state = "all"
               THEN ReturnWith("all", co.error)
               ELSE IF object.state = "resolving"
               THEN ReturnWith("circular_error",
                           "circular dependency encountered in config file; '" \o object.name \o "'")
               ELSE IF object.depends_on = "<no member>"
               THEN ReturnWith(IF co.error # "" THEN "error" ELSE "all", co.error)
               ELSE IF object.depends_on = "<not a string>"
               THEN ReturnWith("error", "value of member 'depends_on' in configuration file must be a 'String'")
               ELSE IF \A i \in 1..Len(co.list) : co.list[i].name # object.depends_on
               THEN ReturnWith("error", "invalid value '" \o object.depends_on
                                    \o "' for member 'depends_on', there's no such configuration")
               ELSE LET it == CHOOSE i \in 1..Len(co.list) :
                                 /\ co.list[i].name = object.depends_on
                                 /\ \A j \in 1..(i - 1) : co.list[j].name # object.depends_on
                    IN /\ config_objects' =
                              [ co EXCEPT !.list[c].state = "resolving",
                                          !.stack = SubSeq(co.stack, 1, Len(co.stack) - 1)
                                                    \o << [ config |-> c, at |-> "called", it |-> it ],
                                                          [ config |-> it, at |-> "entered", it |-> 0 ] >> ]
                       /\ pc' = pc
          ELSE IF co.list[frame.it].state = "circular_error"
               THEN ReturnWith("circular_error", co.error \o " required by '" \o object.name \o "'")
               ELSE ReturnWith(IF co.error # "" THEN "error" ELSE "all", co.error)
    /\ UNCHANGED << source_text, pool, analysis, output_file_infos, includes, dir_order, fs, clock, depjson, cfg,
                    all_rules, opts, source_files, loc, trace, checked, invocations, results, linked,
                    ran, build_result, crash, nbuilds, ntouches, changed, prev_ok, sched, stdout >>

\* get_project_configs: the loop over the configuration objects, which
\* returns at the first error
GetProjectConfigs ==
    /\ pc = "get_project_configs"
    /\ IF config_objects.error # "" \/ config_objects.next > Len(config_objects.list)
       THEN /\ pc' = "resolved"
            /\ UNCHANGED config_objects
       ELSE /\ config_objects' = [ config_objects EXCEPT
                                     !.stack = << [ config |-> config_objects.next, at |-> "entered", it |-> 0 ] >>,
                                     !.next = config_objects.next + 1 ]
            /\ pc' = "resolve_project_config"
    /\ UNCHANGED << source_text, pool, analysis, output_file_infos, includes, dir_order, fs, clock, depjson, cfg,
                    all_rules, opts, source_files, loc, trace, checked, invocations, results, linked,
                    ran, build_result, crash, nbuilds, ntouches, changed, prev_ok, sched, stdout >>

\* a configuration file of up to MaxConfigs configurations c1, c2, ...: each
\* has no depends_on member, one that is not a string, one that names a
\* configuration of the file, or one that names no configuration
InitConfigs ==
    /\ \E n \in 1..MaxConfigs :
         \E depends_on \in [ 1..n -> { "<no member>", "<not a string>", "c0" }
                                     \cup { "c" \o ToString(k) : k \in 1..n } ] :
            config_objects = [ list |-> [ i \in 1..n |-> [ name |-> "c" \o ToString(i),
                                                          depends_on |-> depends_on[i],
                                                          state |-> "none" ] ],
                               error |-> "", stack |-> << >>, next |-> 1 ]
    /\ pc = "get_project_configs"
    /\ source_text = << >>
    /\ includes = << >>
    /\ dir_order = << >>
    /\ fs = [ p \in Paths |-> NoFile ]
    /\ clock = 1
    /\ depjson = NoDocument
    /\ cfg = [ include_paths |-> << >> ]
    /\ all_rules = << >>
    /\ opts = NoOptions
    /\ source_files = << >>
    /\ loc = NoLocals
    /\ trace = << >>
    /\ checked = << >>
    /\ invocations = << >>
    /\ results = << >>
    /\ linked = 0
    /\ ran = << >>
    /\ build_result = 0
    /\ crash = ""
    /\ nbuilds = 0
    /\ ntouches = 0
    /\ changed = { }
    /\ prev_ok = FALSE
    /\ sched = NoSched
    /\ pool = NoPool
    /\ stdout = << >>
    /\ output_file_infos = [ o \in OutputFiles |-> NoInfo ]
    /\ analysis = NoAnalysis

SpecConfigs == InitConfigs /\ [][GetProjectConfigs \/ ResolveProjectConfig]_vars
SpecConfigsFair == SpecConfigs /\ WF_vars(GetProjectConfigs) /\ WF_vars(ResolveProjectConfig)

(***************************************************************************)
(* thread_pool.h.  The calling thread constructs a pool, pushes tasks,     *)
(* waits on their futures and destroys the pool; each worker thread loops  *)
(* over get_next_task.  The statements a thread runs while it holds        *)
(* _tasks_mutex are one step; a worker that has acquired the semaphore and *)
(* has not yet taken the mutex is a state of its own.                      *)
(*                                                                         *)
(* pool.state is "alive", "joining" (the destructor has left its locked    *)
(* block and destroys the threads) or "destroyed".  pool.semaphore is the  *)
(* counter of _task_wait_semaphore, pool.tasks the queue (the tasks by     *)
(* their number), pool.threads the workers: at is "acquire", "lock",       *)
(* "call" or "returned", task the task taken.  pool.pushed records for     *)
(* each task how often it was handed out by get_next_task, how often it    *)
(* was called, how often set_value ran on its promise, and what get() on   *)
(* its future returned ("" while it has not returned).                     *)
(***************************************************************************)
PoolFrame ==
    UNCHANGED << config_objects, source_text, analysis, output_file_infos, includes, dir_order, fs, clock, depjson, cfg, all_rules, pc,
                 opts, source_files, loc, trace, checked, invocations, results, linked, ran,
                 build_result, crash, nbuilds, ntouches, changed, prev_ok, sched, stdout >>


PushTaskReleasingAlways ==
    /\ pool.state = "alive"
    /\ Len(pool.pushed) < MaxTasks
    /\ pool' = [ pool EXCEPT
                   !.threads = IF Len(@) < pool.thread_count
                               THEN Append(@, [ at |-> "acquire", task |-> 0 ])
                               ELSE @,
                   !.tasks = Append(@, Len(pool.pushed) + 1),
                   !.pushed = Append(@, [ handed_out |-> 0, called |-> 0, set_value |-> 0,
                                          got |-> "" ]),
                   !.semaphore = @ + 1 ]
    /\ PoolFrame

PushTaskNeverReleasing ==
    /\ pool.state = "alive"
    /\ Len(pool.pushed) < MaxTasks
    /\ pool' = [ pool EXCEPT
                   !.threads = IF Len(@) < pool.thread_count
                               THEN Append(@, [ at |-> "acquire", task |-> 0 ])
                               ELSE @,
                   !.tasks = Append(@, Len(pool.pushed) + 1),
                   !.pushed = Append(@, [ handed_out |-> 0, called |-> 0, set_value |-> 0,
                                          got |-> "" ]) ]
    /\ PoolFrame

\* push_task: a thread is started while there are fewer than _thread_count,
\* the task is queued, and the semaphore is released if the queue was empty
PushTask ==
    /\ pool.state = "alive"
    /\ Len(pool.pushed) < MaxTasks
    /\ LET task == Len(pool.pushed) + 1
           tasks == Append(pool.tasks, task)
       IN pool' = [ pool EXCEPT
                      !.threads = IF Len(@) < pool.thread_count
                                  THEN Append(@, [ at |-> "acquire", task |-> 0 ])
                                  ELSE @,
                      !.tasks = tasks,
                      !.pushed = Append(@, [ handed_out |-> 0, called |-> 0, set_value |-> 0,
                                             got |-> "" ]),
                      !.semaphore = IF Len(tasks) = 1 THEN @ + 1 ELSE @ ]
    /\ PoolFrame

\* get_next_task: _task_wait_semaphore.acquire() returns
SemaphoreAcquire(w) ==
    /\ pool.threads[w].at = "acquire"
    /\ pool.semaphore > 0
    /\ pool' = [ pool EXCEPT !.semaphore = @ - 1, !.threads[w].at = "lock" ]
    /\ PoolFrame


GetNextTaskKeepingTheTask(w) ==
    /\ pool.threads[w].at = "lock"
    /\ pool' =
         IF pool.tasks = << >>
         THEN [ pool EXCEPT !.semaphore = @ + 1, !.threads[w].at = "returned" ]
         ELSE [ pool EXCEPT
                  !.tasks = IF Len(@) = 1 THEN << >> ELSE @,
                  !.threads[w] = [ at |-> "call", task |-> Head(pool.tasks) ],
                  !.pushed[Head(pool.tasks)].handed_out = @ + 1,
                  !.semaphore = IF Len(pool.tasks) = 1 THEN @ ELSE @ + 1 ]
    /\ PoolFrame

\* get_next_task under the mutex: no task, the last task, or one of several
GetNextTask(w) ==
    /\ pool.threads[w].at = "lock"
    /\ pool' =
         IF pool.tasks = << >>
         THEN [ pool EXCEPT !.semaphore = @ + 1, !.threads[w].at = "returned" ]
         ELSE [ pool EXCEPT
                  !.tasks = Tail(@),
                  !.threads[w] = [ at |-> "call", task |-> Head(pool.tasks) ],
                  !.pushed[Head(pool.tasks)].handed_out = @ + 1,
                  !.semaphore = IF Len(pool.tasks) = 1 THEN @ ELSE @ + 1 ]
    /\ PoolFrame

\* the loop body of the worker: the task runs and sets the value of its promise
CallTask(w) ==
    /\ pool.threads[w].at = "call"
    /\ pool' = [ pool EXCEPT
                   !.pushed[pool.threads[w].task].called = @ + 1,
                   !.pushed[pool.threads[w].task].set_value = @ + 1,
                   !.threads[w] = [ at |-> "acquire", task |-> 0 ] ]
    /\ PoolFrame

\* get() on the future of a task, by the calling thread: it returns once the
\* value is set, or once the promise was destroyed with the queue
FutureGet(t) ==
    /\ pool.state \in { "alive", "destroyed" }
    /\ pool.pushed[t].got = ""
    /\ \/ /\ pool.pushed[t].set_value > 0
          /\ pool' = [ pool EXCEPT !.pushed[t].got = "value" ]
       \/ /\ pool.state = "destroyed"
          /\ pool.pushed[t].handed_out = 0
          /\ pool' = [ pool EXCEPT !.pushed[t].got = "broken_promise" ]
    /\ PoolFrame


DestroyPoolNeverReleasing ==
    /\ pool.state = "alive"
    /\ pool' = [ pool EXCEPT !.state = "joining", !.tasks = << >> ]
    /\ PoolFrame

\* ~thread_pool, the locked block
DestroyPool ==
    /\ pool.state = "alive"
    /\ pool' = IF pool.tasks = << >>
               THEN [ pool EXCEPT !.state = "joining", !.semaphore = @ + 1 ]
               ELSE [ pool EXCEPT !.state = "joining", !.tasks = << >> ]
    /\ PoolFrame

\* ~thread_pool, _threads.clear(): every jthread is joined
JoinThreads ==
    /\ pool.state = "joining"
    /\ \A w \in 1..Len(pool.threads) : pool.threads[w].at = "returned"
    /\ pool' = [ pool EXCEPT !.state = "destroyed", !.threads = << >> ]
    /\ PoolFrame

InitPool ==
    /\ pool \in { [ NoPool EXCEPT !.state = "alive", !.thread_count = n ] : n \in 1..MaxThreads }
    /\ source_text = << >>
    /\ config_objects = << >>
    /\ includes = [ f \in SourceTree |-> << >> ]
    /\ dir_order = << >>
    /\ fs = [ p \in Paths |-> NoFile ]
    /\ clock = 1
    /\ depjson = NoDocument
    /\ cfg = [ include_paths |-> << >> ]
    /\ all_rules = << >>
    /\ pc = "pool"
    /\ opts = NoOptions
    /\ source_files = << >>
    /\ loc = NoLocals
    /\ trace = << >>
    /\ checked = << >>
    /\ invocations = << >>
    /\ results = << >>
    /\ linked = 0
    /\ ran = << >>
    /\ build_result = 0
    /\ crash = ""
    /\ nbuilds = 0
    /\ ntouches = 0
    /\ changed = { }
    /\ prev_ok = FALSE
    /\ sched = NoSched
    /\ stdout = << >>
    /\ output_file_infos = [ o \in OutputFiles |-> NoInfo ]
    /\ analysis = NoAnalysis

NextPool ==
    \/ PushTask
    \/ \E w \in 1..Len(pool.threads) : SemaphoreAcquire(w)
    \/ \E w \in 1..Len(pool.threads) : GetNextTask(w)
    \/ \E w \in 1..Len(pool.threads) : CallTask(w)
    \/ \E t \in 1..Len(pool.pushed) : FutureGet(t)
    \/ DestroyPool
    \/ JoinThreads

SpecPool == InitPool /\ [][NextPool]_vars

\* every thread is scheduled again and again: a worker that can take the
\* semaphore, the mutex or its task does so, and the destructor goes on
SpecPoolFair ==
    /\ SpecPool
    /\ \A w \in 1..MaxThreads :
          /\ WF_vars(w <= Len(pool.threads) /\ SemaphoreAcquire(w))
          /\ WF_vars(w <= Len(pool.threads) /\ GetNextTask(w))
          /\ WF_vars(w <= Len(pool.threads) /\ CallTask(w))
    /\ WF_vars(JoinThreads)

\* main returns the value of build_project; the parent of the process sees
\* its low eight bits
ProcessExitStatus(returned) == returned % 256

(***************************************************************************)
(* The files a file reaches through include lists, and the newest          *)
(* modification time among a set of files.                                 *)
(***************************************************************************)
RECURSIVE ReachFrom(_, _, _)
ReachFrom(incl, seen, n) ==
    IF n = 0 THEN seen
    ELSE ReachFrom(incl, seen \cup UNION { Range(incl[g]) : g \in seen }, n - 1)
Reachable(incl, f) == ReachFrom(incl, { f }, Cardinality(SourceTree))
NewestOf(fsys, S) == CHOOSE m \in { fsys[g] : g \in S } : \A g \in S : fsys[g] <= m

Last(s) == s[Len(s)]
Failed(entry) == entry.exit_code # 0 \/ entry.error # ""
StageOrder ==
    << "prebuild", "analyze", "pch", "compile", "prelink", "linkdep", "link", "postbuild" >>
\* the build at hand follows a build that returned 0 and no file of the
\* project was written in between or since
NothingChanged == nbuilds > 1 /\ prev_ok /\ changed = { }
\* the precompiled header the compilation of a unit uses, "" when none
PchOf(t) == IF IsCSource(t) THEN cfg.c_precompiled_header ELSE cfg.cpp_precompiled_header
Uses(t) == Reachable(includes, t)
           \cup (IF PchOf(t) = "" THEN { } ELSE Reachable(includes, PchOf(t)))

\* C1: a build that follows a successful build, with no source file, header,
\* configuration file or rule output changed in between, runs the compiler
\* zero times and the linker zero times.
C1_SecondBuildDoesNothing ==
    (pc = "exited" /\ crash = "" /\ NothingChanged)
        => (invocations = << >> /\ linked = 0)

\* C2: when exactly one file was made newer since the last successful build,
\* every translation unit whose staleness the build decides is recompiled if
\* it transitively includes that file, and is not recompiled if the file is
\* none it uses.
C2_StalenessPropagates ==
    (pc = "exited" /\ crash = "" /\ nbuilds > 1 /\ prev_ok /\ Cardinality(changed) = 1)
        => \A f \in changed \cap SourceTree : \A t \in Range(checked) :
              /\ f \in Reachable(includes, t) => t \in Range(invocations)
              /\ f \notin Uses(t) => t \notin Range(invocations)

\* C3: when the staleness of the units is about to be decided, the
\* last_modified_time of every file of the graph is the newest disk
\* modification time among the file and the files it reaches through
\* dependency lists.
C3_EffectiveTimeIsNewest ==
    pc = "pch" =>
        \A i \in 1..Len(source_files) :
            source_files[i].last_modified_time
                = NewestOf(fs, Reachable(includes, source_files[i].file_path))

\* C5: the stages of a build run one at a time in the order pre-build rules,
\* dependency refresh and persistence, precompiled headers, translation
\* units, pre-link rules, link-dependency rules, link, post-build rules.
C5_StagesInOrder ==
    /\ Len(trace) <= Len(StageOrder)
    /\ \A i \in 1..Len(trace) : trace[i].stage = StageOrder[i]
    /\ pc \in Range(StageOrder) => pc = StageOrder[Len(trace) + 1]
C5_Witness ==
    /\ pc = "exited"
    /\ Len(trace) = Len(StageOrder)
    /\ Len(invocations) = Cardinality(TranslationUnits)
    /\ linked = 1
    /\ Len(ran) = Len(BuildRules)

\* C6: a stage that ends with a nonzero exit code or an error is the last
\* stage its build starts.
C6_FailureStopsTheBuild ==
    \A i \in 1..Len(trace) : Failed(trace[i]) => (i = Len(trace) /\ pc = "exited")
C6_Witness ==
    /\ pc = "exited"
    /\ Len(trace) = 4
    /\ Failed(trace[4])
    /\ linked = 0

\* what a failed stage reports: the concurrent compilation reports 1, every
\* other stage the exit status of its command
StageStatus(entry) ==
    IF entry.stage = "compile" /\ ~opts.sequential THEN 1 ELSE entry.child

\* C7: when a compiler, linker or rule command exits with a nonzero status
\* and so fails a stage, the exit status of the build process is nonzero and
\* equals the status of that stage, in the sequential and in the concurrent
\* mode.
C7_ExitStatusOfFirstFailure ==
    (pc = "exited" /\ crash = "" /\ trace # << >> /\ Last(trace).child # 0)
        => /\ ProcessExitStatus(build_result) # 0
           /\ ProcessExitStatus(build_result) = StageStatus(Last(trace))

\* C10: the compilation fails if and only if an invocation has a nonzero
\* exit code or a nonzero error count; with warnings alone it succeeds and
\* the build goes on towards the link.
C10_FailedIffExitCodeOrErrors ==
    Len(trace) >= 4 =>
        LET bad == \E i \in 1..Len(results) :
                       results[i].exit_code # 0 \/ results[i].error_count # 0
        IN /\ Failed(trace[4]) <=> bad
           /\ (~bad /\ Len(trace) = 4) => pc = "prelink"
C10_Witness ==
    /\ pc = "prelink"
    /\ \E i \in 1..Len(results) : results[i].warning_count # 0
    /\ \A i \in 1..Len(results) : results[i].exit_code = 0 /\ results[i].error_count = 0

(***************************************************************************)
(* main.cpp: run_rule_command, the stand-alone run-rule command, over two  *)
(* rules A and B, an input file and a name that is neither rule nor file.  *)
(***************************************************************************)
\* fs::file_time_type::max() stands in for the configuration time under --force
TimeMax == 99

RulePaths == { "A", "B", "C", "in.txt", "missing" }
\* two rules that may depend on each other, on the input file or on nothing
PairGraphs ==
    { << [ rule_name |-> "A", is_file |-> fa, dependencies |-> da, commands |-> << "cmd_A" >> ],
         [ rule_name |-> "B", is_file |-> fb, dependencies |-> db, commands |-> << "cmd_B" >> ] >> :
      fa \in BOOLEAN, fb \in BOOLEAN,
      da \in { << >>, << "B" >>, << "in.txt" >>, << "A" >> },
      db \in { << >>, << "A" >>, << "in.txt" >> } }
\* a rule with two dependencies, the first with a dependency of its own
SiblingGraphs ==
    { << [ rule_name |-> "A", is_file |-> fa, dependencies |-> << "B", "C" >>,
           commands |-> << "cmd_A" >> ],
         [ rule_name |-> "B", is_file |-> fb, dependencies |-> db, commands |-> << "cmd_B" >> ],
         [ rule_name |-> "C", is_file |-> fb, dependencies |-> << >>,
           commands |-> << "cmd_C" >> ] >> :
      fa \in BOOLEAN, fb \in BOOLEAN, db \in { << >>, << "in.txt" >> } }
RuleGraphs == PairGraphs \cup SiblingGraphs

\* run_rule_command: the rule named on the command line, with or without --force
RunRuleCommand ==
    /\ pc = "shell"
    /\ nbuilds < MaxBuilds
    /\ \E rule_to_run \in RulePaths, force \in BOOLEAN :
       \E oracle \in RuleOracles(all_rules, rule_to_run) :
         LET last_modified_time == IF force THEN TimeMax ELSE TimeMin
             r == RunRule(all_rules, rule_to_run, last_modified_time, TRUE,
                          [ fs |-> fs, ran |-> << >> ], oracle, clock + 1, 1)
         IN /\ opts' = [ rule_to_run |-> rule_to_run, force |-> force, before |-> fs ]
            /\ fs' = r.st.fs
            /\ ran' = r.st.ran
            /\ crash' = r.crash
            /\ trace' = << [ stage |-> "run-rule", exit_code |-> r.exit_code,
                             error |-> r.error, child |-> r.exit_code \div ExitShift,
                             last_update_time |-> r.last_update_time ] >>
            /\ build_result' = IF r.crash # "" THEN 0
                               ELSE IF r.error # "" THEN 1 ELSE r.exit_code
    /\ clock' = clock + 1
    /\ nbuilds' = nbuilds + 1
    /\ pc' = "rule exited"
    /\ UNCHANGED << config_objects, source_text, pool, analysis, output_file_infos, includes, dir_order, depjson, cfg, all_rules, source_files, loc, checked,
                    invocations, results, linked, ntouches, changed, prev_ok, sched, stdout >>

\* the process has ended; the files it wrote stay
RuleCommandExits ==
    /\ pc = "rule exited"
    /\ pc' = "shell"
    /\ opts' = NoOptions
    /\ ran' = << >>
    /\ trace' = << >>
    /\ crash' = ""
    /\ build_result' = 0
    /\ UNCHANGED << config_objects, source_text, pool, analysis, output_file_infos, includes, dir_order, fs, clock, depjson, cfg, all_rules, source_files, loc,
                    checked, invocations, results, linked, nbuilds, ntouches, changed,
                    prev_ok, sched, stdout >>

\* the user saves the input file
TouchInput ==
    /\ pc = "shell"
    /\ ntouches < MaxTouches
    /\ clock' = clock + 1
    /\ fs' = [ fs EXCEPT !["in.txt"] = clock + 1 ]
    /\ ntouches' = ntouches + 1
    /\ UNCHANGED << config_objects, source_text, pool, analysis, output_file_infos, includes, dir_order, depjson, cfg, all_rules, pc, opts, source_files, loc,
                    trace, checked, invocations, results, linked, ran, build_result, crash,
                    nbuilds, changed, prev_ok, sched, stdout >>

InitRule ==
    /\ includes = [ f \in SourceTree |-> << >> ]
    /\ dir_order = << >>
    /\ fs = [ p \in RulePaths |-> IF p = "in.txt" THEN 1 ELSE NoFile ]
    /\ clock = 1
    /\ depjson = NoDocument
    /\ cfg = [ prebuild_rules |-> << >>, prelink_rules |-> << >>, postbuild_rules |-> << >>,
               link_dependencies |-> << >>,
               c_precompiled_header |-> "", cpp_precompiled_header |-> "",
               excluded_sources |-> << >> ]
    /\ all_rules \in RuleGraphs
    /\ pc = "shell"
    /\ opts = NoOptions
    /\ source_files = << >>
    /\ loc = NoLocals
    /\ trace = << >>
    /\ checked = << >>
    /\ invocations = << >>
    /\ results = << >>
    /\ linked = 0
    /\ ran = << >>
    /\ build_result = 0
    /\ crash = ""
    /\ nbuilds = 0
    /\ ntouches = 0
    /\ changed = { }
    /\ prev_ok = FALSE
    /\ sched = NoSched
    /\ pool = NoPool
    /\ source_text = << >>
    /\ config_objects = << >>
    /\ stdout = << >>
    /\ output_file_infos = [ o \in OutputFiles |-> NoInfo ]
    /\ analysis = NoAnalysis

NextRule ==
    \/ RunRuleCommand
    \/ RuleCommandExits
    \/ TouchInput
SpecRule == InitRule /\ [][NextRule]_vars

\* A depends on B and B depends on A
DependOnEachOther ==
    /\ "B" \in Range(all_rules[FindRule(all_rules, "A")].dependencies)
    /\ "A" \in Range(all_rules[FindRule(all_rules, "B")].dependencies)

\* C4: when rule A depends on rule B and B on A, running A ends with an error
\* reported for the circular dependency and with no command of either rule
\* executed.
C4_RuleCycleIsReported ==
    (pc = "rule exited" /\ opts.rule_to_run = "A" /\ DependOnEachOther)
        => /\ crash = ""
           /\ trace[1].error # ""
           /\ build_result # 0
           /\ ran = << >>

(***************************************************************************)
(* main.cpp: run_commands.  The compiler invocations run as futures that   *)
(* become ready in any order; the calling thread submits, reports and      *)
(* collects.  Indices are those of the code, from 0; the sequences of the  *)
(* model are indexed from 1.                                               *)
(***************************************************************************)
\* get_job_count() as run_commands may see it
JobCounts == { 2, 3 }

\* the units of the source directory in the order they are handed over: every
\* third one lies in the subdirectory sub
FileName(k) ==
    IF k % 3 = 0 THEN "sub/u" \o ToString(k \div 3) \o ".cpp" ELSE "u" \o ToString(k) \o ".cpp"

\* a value-initialized process_result, as compilation_results.resize leaves
\* it; stored records that a result was assigned to the slot
DefaultResult ==
    [ exit_code |-> 0, error_count |-> 0, warning_count |-> 0, captured_output |-> "",
      stored |-> FALSE ]

\* what a compiler run yields: silence, warnings, or errors
FinishedResults(filename) ==
    { [ exit_code |-> 0, error_count |-> 0, warning_count |-> 0, captured_output |-> "",
        stored |-> FALSE ],
      [ exit_code |-> 0, error_count |-> 0, warning_count |-> 1,
        captured_output |-> "warning: " \o filename, stored |-> FALSE ],
      [ exit_code |-> RunProcessExitCode(1), error_count |-> 1, warning_count |-> 0,
        captured_output |-> "error: " \o filename, stored |-> FALSE ] }

\* report_until_index prints the output of the previous line's invocation
ReportedOutputIndexOfLine(i) == i
\* report_until_index: compilation_results[i - 1].captured_output
ReportedOutputIndex(i) == i - 1

\* report_until_index never moves on
NextIndexToReportKept(next_index_to_report, end) == next_index_to_report
\* report_until_index: next_index_to_report = end + 1
NextIndexToReport(next_index_to_report, end) == end + 1

\* the loop of report_until_index from i on
RECURSIVE ReportFrom(_, _, _, _, _)
ReportFrom(out, i, end, compilation_results, compiler_invocations) ==
    IF i > end THEN out
    ELSE LET output == compilation_results[ReportedOutputIndex(i) + 1].captured_output
             printed == IF i # 0 /\ output # ""
                        THEN Append(out, [ kind |-> "output",
                                           invocation |-> ReportedOutputIndex(i),
                                           text |-> output ])
                        ELSE out
             line == [ kind |-> "progress", number |-> i + 1,
                       of |-> Len(compiler_invocations),
                       filename |-> compiler_invocations[i + 1] ]
         IN ReportFrom(Append(printed, line), i + 1, end,
                       compilation_results, compiler_invocations)

\* report_until_index(end)
ReportUntilIndex(end) ==
    /\ stdout' = ReportFrom(stdout, sched.next_index_to_report, end, results, invocations)
    /\ sched' = [ sched EXCEPT !.next_index_to_report =
                                   NextIndexToReport(sched.next_index_to_report, end) ]

\* std::find_if: the first future that is ready, 0 when none is
FirstReady(futures) ==
    IF \E k \in 1..Len(futures) : futures[k].ready
    THEN CHOOSE k \in 1..Len(futures) :
            futures[k].ready /\ \A j \in 1..(k - 1) : ~futures[j].ready
    ELSE 0

Erase(futures, k) == SubSeq(futures, 1, k - 1) \o SubSeq(futures, k + 1, Len(futures))

\* one more future than jobs is let in before the loop waits
JobsTakenOneLate(compilation_futures, job_count) == Len(compilation_futures) = job_count + 1

\* compilation_futures.size() == job_count
JobsTaken(compilation_futures, job_count) == Len(compilation_futures) = job_count

\* the invocations whose result is stored and is a failure
StoredFailures(compilation_results) ==
    { k \in 1..Len(compilation_results) :
        /\ compilation_results[k].stored
        /\ compilation_results[k].exit_code # 0 \/ compilation_results[k].error_count # 0 }

\* the first loop with a free job: std::async starts invocation i.
\* after_failure remembers the invocations started when the result of a
\* failed one was already stored.
Submit ==
    /\ pc = "rc_loop"
    /\ sched.i < Len(invocations)
    /\ ~JobsTaken(sched.compilation_futures, opts.job_count)
    /\ sched' = [ sched EXCEPT
          !.compilation_futures =
              Append(@, [ first |-> sched.i, ready |-> FALSE, value |-> DefaultResult ]),
          !.submitted = Append(@, sched.i),
          !.after_failure = IF StoredFailures(results) # { } THEN @ \cup { sched.i } ELSE @,
          !.i = @ + 1 ]
    /\ UNCHANGED << config_objects, source_text, pool, analysis, output_file_infos, includes, dir_order, fs, clock, depjson, cfg, all_rules, pc, opts,
                    source_files, loc, trace, checked, invocations, results, linked, ran,
                    build_result, crash, nbuilds, ntouches, changed, prev_ok, stdout >>

\* the first loop with every job taken: report, then wait
ReportBeforeWait ==
    /\ pc = "rc_loop"
    /\ sched.i < Len(invocations)
    /\ JobsTaken(sched.compilation_futures, opts.job_count)
    /\ ReportUntilIndex(sched.compilation_futures[1].first)
    /\ pc' = "rc_wait"
    /\ UNCHANGED << config_objects, source_text, pool, analysis, output_file_infos, includes, dir_order, fs, clock, depjson, cfg, all_rules, opts,
                    source_files, loc, trace, checked, invocations, results, linked, ran,
                    build_result, crash, nbuilds, ntouches, changed, prev_ok >>

CollectByPosition ==
    /\ pc = "rc_wait"
    /\ FirstReady(sched.compilation_futures) # 0
    /\ LET it == FirstReady(sched.compilation_futures)
           future == sched.compilation_futures[it]
       IN /\ results' = [ results EXCEPT ![it] = [ future.value EXCEPT !.stored = TRUE ] ]
          /\ sched' = [ sched EXCEPT !.compilation_futures = Erase(@, it) ]
    /\ pc' = "rc_loop"
    /\ UNCHANGED << config_objects, source_text, pool, analysis, output_file_infos, includes, dir_order, fs, clock, depjson, cfg, all_rules, opts,
                    source_files, loc, trace, checked, invocations, linked, ran,
                    build_result, crash, nbuilds, ntouches, changed, prev_ok, stdout >>

\* get_next_finished_it returns; the result is stored and the future erased
Collect ==
    /\ pc = "rc_wait"
    /\ FirstReady(sched.compilation_futures) # 0
    /\ LET it == FirstReady(sched.compilation_futures)
           future == sched.compilation_futures[it]
       IN /\ results' = [ results EXCEPT ![future.first + 1] =
                                              [ future.value EXCEPT !.stored = TRUE ] ]
          /\ sched' = [ sched EXCEPT !.compilation_futures = Erase(@, it) ]
    /\ pc' = "rc_loop"
    /\ UNCHANGED << config_objects, source_text, pool, analysis, output_file_infos, includes, dir_order, fs, clock, depjson, cfg, all_rules, opts,
                    source_files, loc, trace, checked, invocations, linked, ran,
                    build_result, crash, nbuilds, ntouches, changed, prev_ok, stdout >>

\* every invocation is submitted: the loop over the remaining futures begins
LoopEnds ==
    /\ pc = "rc_loop"
    /\ sched.i = Len(invocations)
    /\ sched' = [ sched EXCEPT !.position = 1 ]
    /\ pc' = "rc_drain"
    /\ UNCHANGED << config_objects, source_text, pool, analysis, output_file_infos, includes, dir_order, fs, clock, depjson, cfg, all_rules, opts,
                    source_files, loc, trace, checked, invocations, results, linked, ran,
                    build_result, crash, nbuilds, ntouches, changed, prev_ok, stdout >>

\* the second loop: report_until_index(index)
DrainReport ==
    /\ pc = "rc_drain"
    /\ sched.position <= Len(sched.compilation_futures)
    /\ ReportUntilIndex(sched.compilation_futures[sched.position].first)
    /\ pc' = "rc_get"
    /\ UNCHANGED << config_objects, source_text, pool, analysis, output_file_infos, includes, dir_order, fs, clock, depjson, cfg, all_rules, opts,
                    source_files, loc, trace, checked, invocations, results, linked, ran,
                    build_result, crash, nbuilds, ntouches, changed, prev_ok >>

\* the second loop: compilation_results[index] = future.get()
DrainGet ==
    /\ pc = "rc_get"
    /\ sched.compilation_futures[sched.position].ready
    /\ LET future == sched.compilation_futures[sched.position]
       IN results' = [ results EXCEPT ![future.first + 1] =
                                          [ future.value EXCEPT !.stored = TRUE ] ]
    /\ sched' = [ sched EXCEPT !.position = @ + 1 ]
    /\ pc' = "rc_drain"
    /\ UNCHANGED << config_objects, source_text, pool, analysis, output_file_infos, includes, dir_order, fs, clock, depjson, cfg, all_rules, opts,
                    source_files, loc, trace, checked, invocations, linked, ran,
                    build_result, crash, nbuilds, ntouches, changed, prev_ok, stdout >>

\* the output of the last invocation; run_commands returns
PrintLast ==
    /\ pc = "rc_drain"
    /\ sched.position > Len(sched.compilation_futures)
    /\ LET last_output == results[Len(results)].captured_output
       IN stdout' = IF last_output # ""
                    THEN Append(stdout, [ kind |-> "output", invocation |-> Len(results) - 1,
                                          text |-> last_output ])
                    ELSE stdout
    /\ pc' = "rc_returned"
    /\ UNCHANGED << config_objects, source_text, pool, analysis, output_file_infos, includes, dir_order, fs, clock, depjson, cfg, all_rules, opts,
                    source_files, loc, trace, checked, invocations, results, linked, ran,
                    build_result, crash, nbuilds, ntouches, changed, prev_ok, sched >>

\* a compiler process ends: its future becomes ready
InvocationFinishes ==
    /\ \E k \in 1..Len(sched.compilation_futures) :
         /\ ~sched.compilation_futures[k].ready
         /\ \E value \in FinishedResults(invocations[sched.compilation_futures[k].first + 1]) :
              sched' = [ sched EXCEPT !.compilation_futures[k] =
                             [ first |-> @.first, ready |-> TRUE, value |-> value ] ]
    /\ UNCHANGED << config_objects, source_text, pool, analysis, output_file_infos, includes, dir_order, fs, clock, depjson, cfg, all_rules, pc, opts,
                    source_files, loc, trace, checked, invocations, results, linked, ran,
                    build_result, crash, nbuilds, ntouches, changed, prev_ok, stdout >>

\* the exit code of the first compiler run that failed, 0 when none did
FirstFailedStatus(compilation_results) ==
    LET bad == { k \in 1..Len(compilation_results) : compilation_results[k].exit_code # 0 }
    IN IF bad = { } THEN 0
       ELSE compilation_results[CHOOSE k \in bad : \A j \in bad : k <= j].exit_code \div ExitShift

\* run_commands has returned: build_project_async looks at the results and
\* returns, and build_project goes on or returns
RunCommandsReturns ==
    /\ pc = "rc_returned"
    /\ fs' = WriteObjects(fs, invocations, results, clock)
    /\ loc' = [ loc EXCEPT
          !.object_files = [ k \in 1..Len(invocations) |-> ObjectFile(invocations[k]) ],
          !.any_cpp = TRUE ]
    /\ Finish("compile", BuildProjectAsyncExitCode(IsGood(results)), "",
              FirstFailedStatus(results))
    /\ UNCHANGED << config_objects, source_text, pool, analysis, output_file_infos, includes, dir_order, clock, depjson, cfg, all_rules, opts, source_files,
                    checked, invocations, results, linked, ran, nbuilds, ntouches,
                    changed, prev_ok, sched, stdout >>

\* the units run_commands is handed, and the files of the project around them
SchedUnits == { FileName(k) : k \in 1..MaxInvocations }
SchedPaths == Paths \cup SchedUnits \cup { ObjectFile(u) : u \in SchedUnits }

\* run_commands is entered with at least one invocation and two jobs, in the
\* first build of a project: every unit is stale, nothing is built yet
InitSched ==
    /\ \E n \in 1..MaxInvocations :
         /\ invocations = [ k \in 1..n |-> FileName(k) ]
         /\ results = [ k \in 1..n |-> DefaultResult ]
    /\ \E job_count \in JobCounts :
         opts = [ sequential |-> FALSE, rebuild |-> FALSE, link |-> FALSE,
                  job_count |-> job_count ]
    /\ pc = "rc_loop"
    /\ sched = NoSched
    /\ pool = NoPool
    /\ source_text = << >>
    /\ config_objects = << >>
    /\ stdout = << >>
    /\ includes = [ f \in SourceTree |-> << >> ]
    /\ dir_order = << >>
    /\ fs = [ p \in SchedPaths |->
                IF p \in SchedUnits \cup { ConfigFile, DependencyFile } THEN 1 ELSE NoFile ]
    /\ clock = 1
    /\ depjson = NoDocument
    /\ cfg = [ prebuild_rules |-> << >>, prelink_rules |-> << "check" >>,
               postbuild_rules |-> << "post" >>, link_dependencies |-> << "lib.a" >>,
               c_precompiled_header |-> "", cpp_precompiled_header |-> "",
               excluded_sources |-> << >> ]
    /\ all_rules = BuildRules
    /\ source_files = << >>
    /\ loc = NoLocals
    /\ trace = << >>
    /\ checked = << >>
    /\ linked = 0
    /\ ran = << >>
    /\ build_result = 0
    /\ crash = ""
    /\ nbuilds = 0
    /\ ntouches = 0
    /\ changed = { }
    /\ prev_ok = FALSE
    /\ output_file_infos = [ o \in OutputFiles |-> NoInfo ]
    /\ analysis = NoAnalysis

NextSched ==
    \/ Submit
    \/ ReportBeforeWait
    \/ Collect
    \/ LoopEnds
    \/ DrainReport
    \/ DrainGet
    \/ PrintLast
    \/ InvocationFinishes
    \/ RunCommandsReturns
    \/ PreLink
    \/ LinkDependencies
    \/ Link
    \/ PostBuild
SpecSched == InitSched /\ [][NextSched]_vars

ProgressLines == SelectSeq(stdout, LAMBDA e : e.kind = "progress")
Outputs == SelectSeq(stdout, LAMBDA e : e.kind = "output")

\* C8: the invocations are submitted in list order, and the progress lines
\* (i/N) come out for i = 1, 2, ... in increasing order, each once and with
\* the file name of invocation i, never before invocation i is submitted;
\* when run_commands returns all N invocations are submitted and all N
\* lines are out.
C8_ProgressInListOrder ==
    /\ \A k \in 1..Len(sched.submitted) : sched.submitted[k] = k - 1
    /\ \A k \in 1..Len(ProgressLines) :
         /\ ProgressLines[k].number = k
         /\ ProgressLines[k].of = Len(invocations)
         /\ ProgressLines[k].filename = invocations[k]
         /\ k <= Len(sched.submitted)
    /\ pc = "rc_returned" =>
         /\ Len(sched.submitted) = Len(invocations)
         /\ Len(ProgressLines) = Len(invocations)
\* a later invocation was collected before an earlier one, with progress
\* lines already out
C8_Witness ==
    /\ Len(ProgressLines) >= 2
    /\ \E j \in 1..Len(results) : \E k \in 1..Len(results) :
         j < k /\ ~results[j].stored /\ results[k].stored

\* C9: an output is printed only when the result of its invocation and of
\* every invocation before it is stored; the outputs come out in index
\* order, each once; when run_commands returns every captured output is
\* out.
C9_OutputsInIndexOrder ==
    /\ \A k \in 1..Len(Outputs) :
         /\ \A j \in 1..(Outputs[k].invocation + 1) : results[j].stored
         /\ Outputs[k].text = results[Outputs[k].invocation + 1].captured_output
    /\ \A k \in 1..Len(Outputs) : \A l \in 1..Len(Outputs) :
         k < l => Outputs[k].invocation < Outputs[l].invocation
    /\ pc = "rc_returned" =>
         { Outputs[k].invocation + 1 : k \in 1..Len(Outputs) }
             = { n \in 1..Len(results) : results[n].captured_output # "" }
\* an output is out while a later result waits, stored, for an earlier
\* invocation that has not been collected
C9_Witness ==
    /\ Outputs # << >>
    /\ \E j \in 1..Len(results) : \E k \in 1..Len(results) :
         /\ j < k
         /\ ~results[j].stored
         /\ results[k].stored
         /\ results[k].captured_output # ""

Min(a, b) == IF a < b THEN a ELSE b

\* run_commands has returned to build_project_async
RunCommandsDone == pc \notin { "rc_loop", "rc_wait", "rc_drain", "rc_get" }

\* C11: when the concurrent compilation phase is over, every invocation of
\* the list has been started and its result has been collected and its
\* captured output reported, the invocations started after a failure was
\* collected included; after a compilation phase with a failed invocation
\* the build has ended and no pre-link rule, link-dependency rule, link or
\* post-build rule was started.
C11_SiblingsFinishThenBuildStops ==
    /\ RunCommandsDone =>
         /\ Len(sched.submitted) = Len(invocations)
         /\ \A k \in 1..Len(results) : results[k].stored
         /\ \A k \in 1..Len(results) :
              results[k].captured_output # "" =>
                  \E n \in 1..Len(Outputs) : Outputs[n].invocation = k - 1
    /\ (RunCommandsDone /\ pc # "rc_returned" /\ StoredFailures(results) # { }) =>
         /\ pc = "exited"
         /\ Len(trace) = 1
         /\ build_result # 0
         /\ ran = << >>
         /\ linked = 0
\* the build ended after a phase in which an invocation was started when a
\* failure was already collected
C11_Witness ==
    /\ pc = "exited"
    /\ sched.after_failure # { }
    /\ \E k \in sched.after_failure : results[k + 1].stored /\ results[k + 1].exit_code = 0

\* C12: the number of invocations in flight never exceeds the smaller of
\* the job count and the number of invocations; an invocation is started
\* only while fewer than job-count are in flight, and a place becomes free
\* only by collecting an invocation that has completed.
C12_InFlightIsBounded ==
    /\ [](Len(sched.compilation_futures) <= Min(opts.job_count, Len(invocations)))
    /\ [][ /\ Len(sched'.submitted) > Len(sched.submitted)
               => Len(sched.compilation_futures) < opts.job_count
           /\ Len(sched'.compilation_futures) < Len(sched.compilation_futures)
               => \E k \in 1..Len(sched.compilation_futures) :
                     /\ sched.compilation_futures[k].ready
                     /\ sched'.compilation_futures = Erase(sched.compilation_futures, k) ]_vars
\* every job is taken, an invocation was started after the bound had been
\* reached, and more invocations wait
C12_Witness ==
    /\ Len(sched.compilation_futures) = opts.job_count
    /\ Len(sched.submitted) > opts.job_count
    /\ sched.i < Len(invocations)

(***************************************************************************)
(* The run-rule command as its caller sees it: the rule asked for, the     *)
(* disk before the run, and the run of one dependency on its own.          *)
(***************************************************************************)
RuleAsked == opts.rule_to_run
RuleIndex == FindRule(all_rules, RuleAsked)
RuleEndedWell == pc = "rule exited" /\ crash = "" /\ trace[1].error = ""
ConfigTime == IF opts.force THEN TimeMax ELSE TimeMin
Executed(name) == \E k \in 1..Len(ran) : ran[k][1] = name
MaxOver(S) == IF S = { } THEN TimeMin ELSE CHOOSE m \in S : \A x \in S : x <= m
\* what the commands that ran did, as the run shows it: the exit code, and
\* whether the file of the rule was written
Observed ==
    [ c \in CommandsOf(all_rules) |->
        IF \E k \in 1..Len(ran) : ran[k][2] = c
        THEN LET e == ran[CHOOSE k \in 1..Len(ran) : ran[k][2] = c]
             IN [ code |-> e[3] \div ExitShift, makes |-> fs[e[1]] = clock ]
        ELSE [ code |-> 0, makes |-> FALSE ] ]
\* what run_rule returns for a dependency of the rule asked for
DependencyResult(d) ==
    RunRule(all_rules, d, ConfigTime, TRUE, [ fs |-> opts.before, ran |-> << >> ],
            Observed, clock, 2)

\* C13: when the dependencies of the rule asked for all returned 0, the
\* commands of the rule execute if and only if the rule is no file rule, or
\* its file did not exist, or the time of its file was older than the
\* maximum of the configuration time stamp and the time stamps its
\* dependencies returned; a file rule that is up to date runs no command.
C13_CommandsRunIffStale ==
    (RuleEndedWell /\ RuleIndex # 0) =>
        LET rule == all_rules[RuleIndex]
            deps == Range(rule.dependencies)
            dependency_times == MaxOver({ DependencyResult(d).last_update_time : d \in deps })
        IN (\A d \in deps : DependencyResult(d).exit_code = 0) =>
              (Executed(RuleAsked) <=>
                  \/ ~rule.is_file
                  \/ ~Exists(opts.before, RuleAsked)
                  \/ opts.before[RuleAsked] < Max(ConfigTime, dependency_times))
\* a file rule with a dependency was asked for, its file is up to date and
\* its commands did not run
C13_Witness ==
    /\ RuleEndedWell
    /\ RuleIndex # 0
    /\ all_rules[RuleIndex].is_file
    /\ all_rules[RuleIndex].dependencies # << >>
    /\ Exists(opts.before, RuleAsked)
    /\ ~Executed(RuleAsked)
    /\ trace[1].exit_code = 0

\* the rules a run of name visits, every dependency with its own
\* dependencies before the rule itself
RECURSIVE DepthFirst(_, _), DepthFirstAll(_, _)
DepthFirst(name, n) ==
    LET it == FindRule(all_rules, name)
    IN IF it = 0 \/ n = 0 THEN << >>
       ELSE DepthFirstAll(all_rules[it].dependencies, n - 1) \o << name >>
DepthFirstAll(names, n) ==
    IF names = << >> THEN << >>
    ELSE DepthFirst(Head(names), n) \o DepthFirstAll(Tail(names), n)
PlaceIn(order, name) == CHOOSE i \in 1..Len(order) : order[i] = name

\* C14: the commands run in depth-first order of the dependency lists, a
\* dependency with its own dependencies completely before the next one and
\* before the commands of the rule itself; when a command of a dependency
\* exits with a nonzero code, it is the last command that runs (no later
\* sibling, no command of the rule asked for) and run_rule returns the exit
\* code the dependency returned.
C14_DependenciesFirstAndFailFast ==
    (RuleEndedWell /\ RuleIndex # 0) =>
        LET order == DepthFirst(RuleAsked, Len(all_rules) + 1)
        IN /\ \A k \in 1..Len(ran) : ran[k][1] \in Range(order)
           /\ \A i \in 1..Len(ran) : \A j \in 1..Len(ran) :
                i < j => PlaceIn(order, ran[i][1]) < PlaceIn(order, ran[j][1])
           /\ \A k \in 1..Len(ran) :
                (ran[k][1] # RuleAsked /\ ran[k][3] # 0) =>
                    /\ k = Len(ran)
                    /\ ~Executed(RuleAsked)
                    /\ trace[1].exit_code = ran[k][3]
\* the first of two dependencies failed; the second, a rule that is no
\* file and would have run, did not run
C14_Witness ==
    /\ RuleEndedWell
    /\ RuleAsked = "A"
    /\ Len(all_rules) = 3
    /\ ~all_rules[3].is_file
    /\ Len(ran) = 1
    /\ ran[1][1] = "B"
    /\ ran[1][3] # 0
    /\ trace[1].exit_code # 0

\* C15: asked for a name that is no rule, run_rule succeeds with exit code
\* 0, runs no command and returns the time of the file when a file of that
\* name exists; when none exists it fails with an error that names the
\* reference, and the process exits with a nonzero status.
C15_UnknownRuleFileOrError ==
    (pc = "rule exited" /\ RuleIndex = 0) =>
        /\ crash = ""
        /\ ran = << >>
        /\ fs = opts.before
        /\ IF Exists(opts.before, RuleAsked)
           THEN /\ trace[1].error = ""
                /\ trace[1].exit_code = 0
                /\ trace[1].last_update_time = opts.before[RuleAsked]
                /\ build_result = 0
           ELSE /\ trace[1].error = "is not a rule name or a file: " \o RuleAsked
                /\ ProcessExitStatus(build_result) # 0
\* the input file was asked for after it had been saved again
C15_Witness ==
    /\ pc = "rule exited"
    /\ RuleAsked = "in.txt"
    /\ build_result = 0
    /\ trace[1].last_update_time > 1

(***************************************************************************)
(* The builds of SpecProject.                                              *)
(***************************************************************************)
\* a link dependency of the configuration is neither a rule nor a file
UnknownLinkDependency ==
    \E i \in 1..Len(cfg.link_dependencies) :
        /\ FindRule(all_rules, cfg.link_dependencies[i]) = 0
        /\ ~Exists(fs, cfg.link_dependencies[i])

\* C16: with a link dependency that names neither a rule nor an existing
\* file, the link-dependency stage ends without an error and without ending
\* the process, and the build goes on to the link.
C16_UnknownLinkDependencyIsNoError ==
    (UnknownLinkDependency /\ Len(trace) >= 6) =>
        /\ crash = ""
        /\ ~Failed(trace[6])
        /\ Len(trace) = 6 => pc = "link"

\* the claim's condition for the linker to run, read off the state in which
\* link_project is entered
LinkDependencyTimestamp ==
    MaxOver({ LastWriteTime(fs, ConfigFile), loc.prelink_last_update, loc.link_dep_last_update })
LinkNeeded ==
    \/ opts.link
    \/ ~Exists(fs, ExecutableFile)
    \/ fs[ExecutableFile] < NewestOf(fs, Range(loc.object_files))
    \/ fs[ExecutableFile] < LinkDependencyTimestamp

\* C17: link_project runs the linker if and only if --link is given, or the
\* executable does not exist, or the executable is older than the newest
\* object file or than the maximum of the configuration, pre-link and
\* link-dependency time stamps.
C17_LinkIffNeeded ==
    [][ pc = "link" => ((linked' = linked + 1) <=> LinkNeeded) ]_vars
\* the second build compiled nothing and ran no file rule, and ran the
\* linker because --link was given
C17_Witness ==
    /\ pc = "postbuild"
    /\ nbuilds = 2
    /\ opts.link
    /\ invocations = << >>
    /\ changed = { }
    /\ linked = 1

\* C18: a source file of excluded_sources is in no compiler invocation and
\* its object file is not among the object files handed to the linker;
\* every other translation unit of the source directory is a compilation
\* unit.
C18_ExcludedSourcesAreLeftOut ==
    /\ \A t \in Range(cfg.excluded_sources) :
         /\ t \notin Range(invocations)
         /\ ObjectFile(t) \notin Range(loc.object_files)
    /\ Len(trace) >= 4 /\ ~Failed(trace[4]) =>
         \A t \in TranslationUnits \ Range(cfg.excluded_sources) :
             ObjectFile(t) \in Range(loc.object_files)

\* the last_modified_time the build has for a file
EffectiveTime(f) == source_files[FindSourceFile(source_files, f)].last_modified_time
\* the units the build looked at and did not compile
Reused == Range(checked) \ Range(invocations)

\* C19: an object file is reused only if it is not older than the effective
\* time of its source, not older than the precompiled header it depends on,
\* an output_file_info is kept for it whose hash is the hash of the file on
\* disk, and the compiler and the arguments kept there are those of the
\* invocation that would be made now.
C19_ReuseNeedsMatchingRecord ==
    (Len(trace) >= 4 /\ ~Failed(trace[4])) =>
        \A t \in Reused :
            /\ fs[ObjectFile(t)] >= EffectiveTime(t)
            /\ fs[ObjectFile(t)] >= (IF IsCSource(t) THEN loc.c_pch_last_update
                                                     ELSE loc.cpp_pch_last_update)
            /\ output_file_infos[ObjectFile(t)] # NoInfo
            /\ output_file_infos[ObjectFile(t)].hash = HashFile(fs, ObjectFile(t))
            /\ output_file_infos[ObjectFile(t)].compiler = CompilerOf(t)
            /\ output_file_infos[ObjectFile(t)].args = ArgsOf(t)

\* C20: no output_file_info is kept for an output whose compilation failed
\* or has not ended; the output_file_info of an output is written again
\* once its compilation has succeeded.
C20_RecordFollowsCompilation ==
    \A k \in 1..Len(invocations) :
        LET o == ObjectFile(invocations[k])
        IN IF k > Len(results) \/ results[k].exit_code # 0
           THEN output_file_infos[o] = NoInfo
           ELSE Len(trace) >= 4 => output_file_infos[o] # NoInfo
(***************************************************************************)
(* C21: a dependency file that is malformed (its text does not parse, its  *)
(* top level is not an object, a member's value is not an array, an array  *)
(* element is not a string) is treated as absent: the build that finds it  *)
(* does not fail because of it, it runs its stages and derives the graph   *)
(* again.  Stated for the builds that follow a damaged dependency file:    *)
(* such a build does not end before its first stage, and once its analysis *)
(* is done the dependency file on disk is one that reads without error.    *)
(***************************************************************************)
C21_MalformedCacheIsAbsent ==
    (pc # "idle" /\ DependencyFile \in changed /\ crash = "")
        => /\ pc = "exited" => trace # << >>
           /\ Len(trace) >= 2 => ReadDependencyJson(fs, depjson).error = ""

(***************************************************************************)
(* C22: every build whose pre-build rules succeeded writes the refreshed   *)
(* dependency file, whether or not anything changed, and writes it before  *)
(* the compilation starts, so that it is also written in builds whose      *)
(* compilation, link or later rules fail.  From the end of the analysis    *)
(* stage on, and whenever a precompiled header or a unit has been looked   *)
(* at, the dependency file carries the time of this build and holds the    *)
(* graph of this build: one member per entry, named by its path, with its  *)
(* dependency list.                                                        *)
(***************************************************************************)
TextsOf(value) == [ k \in 1..Len(value) |-> value[k].text ]

C23_AnalysisTerminates ==
    /\ crash = ""
    /\ Len(analysis.stack) <= Cardinality(SourceTree) + 1
    /\ \A i, j \in 1..Len(analysis.stack) :
         (/\ i < j
          /\ analysis.stack[i].fn # "fill" /\ analysis.stack[i].index # 0
          /\ analysis.stack[j].fn # "fill" /\ analysis.stack[j].index # 0)
             => LexicallyNormal(analysis.stack[i].file) # LexicallyNormal(analysis.stack[j].file)

(***************************************************************************)
(* C24: after analyze_source_files every file that was discovered (every   *)
(* file of the source directory and every file an entry depends on) is in  *)
(* the graph, and no file is in it twice, also when several files include  *)
(* it, when it lies on an include cycle or when the cache carried it over. *)
(***************************************************************************)
FilesOf(paths) == { LexicallyNormal(q) : q \in paths }

C24_EveryFileExactlyOnce ==
    (analysis.phase = "done" /\ crash = "") =>
        /\ \A r \in Range(dir_order) :
             \E i \in 1..Len(source_files) : source_files[i].file_path = r
        /\ \A i \in 1..Len(source_files) :
             FilesOf(Range(source_files[i].dependencies))
                 \subseteq FilesOf({ source_files[j].file_path : j \in 1..Len(source_files) })
        /\ \A i, j \in 1..Len(source_files) :
             LexicallyNormal(source_files[i].file_path)
                 = LexicallyNormal(source_files[j].file_path) => i = j

(***************************************************************************)
(* C25: writing a graph with write_dependency_json and reading the file    *)
(* with read_dependency_json, with no change of the file system between    *)
(* the two, gives the same graph: the same set of files, and for each file *)
(* the same set of direct dependencies.                                    *)
(***************************************************************************)
PathsOf(srcs) == { srcs[i].file_path : i \in 1..Len(srcs) }
GraphOf(srcs) ==
    [ f \in FilesOf(PathsOf(srcs)) |->
        FilesOf(UNION { Range(srcs[i].dependencies) :
                          i \in { j \in 1..Len(srcs) : LexicallyNormal(srcs[j].file_path) = f } }) ]

C25_WriteThenReadIsTheSameGraph ==
    (pc = "idle" /\ analysis.phase = "done" /\ changed = { }) =>
        /\ ReadDependencyJson(fs, depjson).error = ""
        /\ GraphOf(ReadDependencyJson(fs, depjson).source_files) = GraphOf(source_files)
C25_Witness ==
    /\ pc = "idle" /\ analysis.phase = "done" /\ changed = { }
    /\ nbuilds = 2
    /\ \E i \in 1..Len(source_files) :
         /\ Dots(source_files[i].file_path) > 0
         /\ source_files[i].dependencies # << >>

(***************************************************************************)
(* C26: when the configuration file is newer than the dependency file, no  *)
(* entry of the cache is carried forward: every file of the resulting      *)
(* graph is scanned again.  Holds from the moment analyze_source_files has *)
(* filtered the entries.                                                   *)
(***************************************************************************)
C26_NewerConfigRescansEverything ==
    (/\ analysis.phase \in { "add", "done" }
     /\ analysis.config_last_update > analysis.dependency_file_last_update)
        => PathsOf(source_files) \subseteq Range(analysis.scanned)
C26_Witness ==
    /\ analysis.phase = "done"
    /\ nbuilds = 2
    /\ analysis.dependency_file_last_update # TimeMin
    /\ analysis.config_last_update > analysis.dependency_file_last_update
    /\ Len(analysis.sources_in) > Cardinality(TranslationUnits)
    /\ \A i \in 1..Len(analysis.sources_in) :
         analysis.sources_in[i].last_modified_time < analysis.dependency_file_last_update

(***************************************************************************)
(* C30: an entry of the cache whose file exists and whose effective time   *)
(* is older than the dependency file, in a build whose configuration file  *)
(* is older than the dependency file too, is carried into the new graph    *)
(* with its dependency list unchanged, and its file is not scanned again,  *)
(* also when it is a file of the source directory.                         *)
(***************************************************************************)
CarriedOver(e) ==
    /\ Exists(fs, e.file_path)
    /\ e.last_modified_time < analysis.dependency_file_last_update
    /\ analysis.config_last_update < analysis.dependency_file_last_update

C30_CarriedEntryIsNotScanned ==
    (pc = "idle" /\ analysis.phase = "done" /\ changed = { }) =>
        \A i \in 1..Len(analysis.sources_in) :
            LET e == analysis.sources_in[i] IN
            CarriedOver(e) =>
                /\ \E j \in 1..Len(source_files) : source_files[j] = e
                /\ e.file_path \notin FilesOf(Range(analysis.scanned))

(***************************************************************************)
(* C27: an include in quotes resolves to the file of that name in the      *)
(* directory of the including file if it exists there, otherwise to the    *)
(* first search directory, in the configured order, that holds it; an      *)
(* include in angle brackets is looked for in the search directories only; *)
(* an include that resolves nowhere gives no dependency and no error.      *)
(***************************************************************************)
Candidates ==
    (IF includes[1].is_library THEN << >> ELSE << "src/" \o includes[1].path >>)
    \o [ k \in 1..Len(cfg.include_paths) |-> cfg.include_paths[k] \o "/" \o includes[1].path ]

C27_IncludeResolutionOrder ==
    pc = "resolved" =>
        /\ crash = "" /\ build_result = 0
        /\ IF \A k \in 1..Len(Candidates) : ~Exists(fs, Candidates[k])
           THEN source_files[1].dependencies = << >>
           ELSE \E k \in 1..Len(Candidates) :
                   /\ Exists(fs, Candidates[k])
                   /\ \A j \in 1..(k - 1) : ~Exists(fs, Candidates[j])
                   /\ source_files[1].dependencies = << Candidates[k] >>
C27_Witness ==
    /\ pc = "resolved"
    /\ includes[1].is_library
    /\ cfg.include_paths = << "inc1", "inc2" >>
    /\ Exists(fs, "src/x.h") /\ ~Exists(fs, "inc1/x.h")
    /\ source_files[1].dependencies = << "inc2/x.h" >>

(***************************************************************************)
(* C28: whenever a precompiled header is regenerated, every translation    *)
(* unit of its language whose object is older than the regenerated header  *)
(* is compiled in the same build; the units of the other language are not  *)
(* forced by it: such a unit is compiled only if --rebuild is given or its *)
(* object is older than its effective time, than the configuration and     *)
(* pre-build time, or than the precompiled header of its own language.     *)
(* Stated for the step that decides and runs the compilations.             *)
(***************************************************************************)
ObjectTime(t) ==
    IF Exists(fs, ObjectFile(t)) THEN LastWriteTime(fs, ObjectFile(t)) ELSE TimeMin
OwnPchTime(t) == IF IsCSource(t) THEN loc.c_pch_last_update ELSE loc.cpp_pch_last_update
Regenerated(t) == PchOf(t) # "" /\ OwnPchTime(t) = clock

C28_RegeneratedPchForcesItsLanguage ==
    [][pc = "compile" =>
        \A t \in Range(checked') :
            /\ (Regenerated(t) /\ ObjectTime(t) < OwnPchTime(t)) => t \in Range(invocations')
            /\ (t \in Range(invocations') /\ ~Regenerated(t)) =>
                  \/ opts.rebuild
                  \/ ObjectTime(t) < EffectiveTime(t)
                  \/ ObjectTime(t) < loc.build_dependency_last_update
                  \/ ObjectTime(t) < OwnPchTime(t)]_vars
C28_Witness ==
    /\ nbuilds = 2
    /\ Len(trace) >= 4
    /\ cfg.cpp_precompiled_header # ""
    /\ loc.c_pch_last_update = clock
    /\ loc.cpp_pch_last_update # clock
    /\ "r.c" \in Range(invocations)
    /\ "c.h" \notin Reachable(includes, "r.c")
    /\ EffectiveTime("r.c") = 1
    /\ loc.build_dependency_last_update < clock - 1

(***************************************************************************)
(* C29: a translation unit whose object is older than the configuration    *)
(* file, or older than the file a pre-build file rule of this build left,  *)
(* is compiled; a pre-build rule that is not a file rule and has no        *)
(* dependency contributes no time: with such rules only, a unit is         *)
(* compiled only if --rebuild is given or its object is older than its     *)
(* effective time or than the configuration file.  Stated for the step     *)
(* that decides and runs the compilations.                                 *)
(***************************************************************************)
PrebuildFileTimes ==
    { LastWriteTime(fs, all_rules[i].rule_name) :
        i \in { j \in 1..Len(all_rules) :
                  /\ all_rules[j].rule_name \in Range(cfg.prebuild_rules)
                  /\ all_rules[j].is_file
                  /\ Exists(fs, all_rules[j].rule_name) } }
OnlyPlainPrebuildRules ==
    \A j \in 1..Len(all_rules) :
        all_rules[j].rule_name \in Range(cfg.prebuild_rules)
            => ~all_rules[j].is_file /\ all_rules[j].dependencies = << >>

C29_ConfigAndPrebuildForceCompilation ==
    [][pc = "compile" =>
        \A t \in Range(checked') :
            /\ (\/ ObjectTime(t) < LastWriteTime(fs, ConfigFile)
                \/ \E time \in PrebuildFileTimes : ObjectTime(t) < time)
                   => t \in Range(invocations')
            /\ (OnlyPlainPrebuildRules /\ t \in Range(invocations')) =>
                  \/ opts.rebuild
                  \/ ObjectTime(t) < EffectiveTime(t)
                  \/ ObjectTime(t) < LastWriteTime(fs, ConfigFile)]_vars
C29_Witness ==
    /\ nbuilds = 2
    /\ Len(trace) >= 4
    /\ ~opts.rebuild
    /\ changed = { ConfigFile, "gen" }
    /\ \E i \in 1..Len(ran) : ran[i][1] = "gen"
    /\ invocations = << "a.cpp", "r.c" >>
    /\ EffectiveTime("a.cpp") < LastWriteTime(fs, ConfigFile)
    /\ LastWriteTime(fs, ConfigFile) < LastWriteTime(fs, "gen")

(***************************************************************************)
(* The worker pool.                                                        *)
(***************************************************************************)
Task(t) == pool.pushed[t]
TakenBy(t) == { w \in 1..Len(pool.threads) : pool.threads[w].task = t }

(***************************************************************************)
(* C31: every task pushed to the pool is handed out by get_next_task at    *)
(* most once, so to at most one worker, and is called at most once; its    *)
(* promise is set at most once, and exactly once when the worker that took *)
(* it has gone on; get() on its future returns a value only after that.    *)
(* A task is never both in the queue and handed out, and never twice in    *)
(* the queue.                                                              *)
(***************************************************************************)
C31_EachTaskRunsOnceOnOneWorker ==
    /\ \A t \in 1..Len(pool.pushed) :
          /\ Task(t).handed_out <= 1
          /\ Task(t).called <= 1
          /\ Task(t).set_value <= 1
          /\ Cardinality(TakenBy(t)) <= 1
          /\ Cardinality({ k \in 1..Len(pool.tasks) : pool.tasks[k] = t }) + Task(t).handed_out <= 1
          /\ (Task(t).handed_out = 1 /\ TakenBy(t) = { }) => Task(t).set_value = 1
          /\ Task(t).handed_out = 0 => Task(t).set_value = 0
          /\ Task(t).got = "value" => Task(t).set_value = 1 /\ TakenBy(t) = { }
C31_Witness ==
    /\ pool.state = "alive"
    /\ Len(pool.threads) = 2
    /\ Len(pool.pushed) = MaxTasks
    /\ \A t \in 1..Len(pool.pushed) : Task(t).got = "value"

C34_SemaphoreAtMostOne == pool.semaphore <= 1
C34_Witness ==
    /\ pool.state = "joining"
    /\ pool.semaphore = 1
    /\ Len(pool.threads) = 2
    /\ pool.threads[1].at = "returned"
    /\ pool.threads[2].at = "acquire"
    /\ \E t \in 1..Len(pool.pushed) : Task(t).called = 1

(***************************************************************************)
(* C35: the destructor ends: once it has left its locked block every       *)
(* worker returns from its loop and the threads are joined, wherever the   *)
(* workers were.  From the locked block on the queue is empty, so a task   *)
(* queued at that time is never handed out; a task that was handed out is  *)
(* called before the destructor ends.                                      *)
(***************************************************************************)
C35_DestructionEnds ==
    /\ (pool.state = "joining") ~> (pool.state = "destroyed")
    /\ [](pool.state \in { "joining", "destroyed" } => pool.tasks = << >>)
    /\ [](pool.state = "destroyed" =>
            \A t \in 1..Len(pool.pushed) : Task(t).called = Task(t).handed_out)
C35_Witness ==
    /\ pool.state = "destroyed"
    /\ \E t \in 1..Len(pool.pushed) : Task(t).handed_out = 0
    /\ \E t \in 1..Len(pool.pushed) : Task(t).called = 1

(***************************************************************************)
(* C36: run_commands returns a list in which entry i is the result of      *)
(* invocation i, whatever the order in which the invocations finish.  A    *)
(* step that writes the list fills one entry that was not filled before,   *)
(* the entry with the index paired with a ready future, with the value of  *)
(* that future, and leaves the others; an entry with output carries the    *)
(* output of its own invocation; when run_commands returns every entry is  *)
(* filled.                                                                 *)
(***************************************************************************)
C36_ResultsAtTheirIndex ==
    /\ [][results' # results =>
            \E k \in 1..Len(results) :
               /\ ~results[k].stored
               /\ results'[k].stored
               /\ \A j \in 1..Len(results) : j # k => results'[j] = results[j]
               /\ \E f \in 1..Len(sched.compilation_futures) :
                     /\ sched.compilation_futures[f].first = k - 1
                     /\ sched.compilation_futures[f].ready
                     /\ results'[k] = [ sched.compilation_futures[f].value EXCEPT !.stored = TRUE ]]_vars
    /\ [](\A k \in 1..Len(results) :
             results[k].stored => results[k] \in { [ r EXCEPT !.stored = TRUE ] :
                                                     r \in FinishedResults(invocations[k]) })
    /\ [](pc = "rc_returned" => \A k \in 1..Len(results) : results[k].stored)
\* the first invocation was still running when later ones were collected
C36_Witness ==
    /\ pc = "rc_returned"
    /\ Len(invocations) = MaxInvocations
    /\ opts.job_count = 2
    /\ sched.compilation_futures[1].first = 0
    /\ \A k \in 1..Len(results) : results[k].stored /\ results[k].captured_output # ""

(***************************************************************************)
(* C37: the translation units of one build are given object files that     *)
(* differ from one another, so the list of objects handed to the linker    *)
(* holds no object twice and no compiler run writes the object of another  *)
(* unit.                                                                   *)
(***************************************************************************)
C37_ObjectFilesDiffer ==
    \A i \in 1..Len(loc.object_files) : \A j \in 1..Len(loc.object_files) :
        i # j => loc.object_files[i] # loc.object_files[j]

(***************************************************************************)
(* C38: the refresh that starts from the cache of an earlier build gives   *)
(* every file of the source directory the dependency list a scan of the    *)
(* files as they are now gives it.  The lists are compared as lists of     *)
(* files: two spellings of one path count as the same.                     *)
(***************************************************************************)
NormalList(paths) == [ k \in 1..Len(paths) |-> LexicallyNormal(paths[k]) ]

C38_RefreshEqualsFullScan ==
    (pc = "idle" /\ analysis.phase = "done" /\ crash = "" /\ changed = { })
        => \A i \in 1..Len(source_files) :
              source_files[i].file_path \in Range(dir_order)
                 => NormalList(source_files[i].dependencies)
                    = NormalList(GetDependencies(fs, includes, source_files[i].file_path))

(***************************************************************************)
(* C39: the dependency graph is closed.  Whenever the graph has been read  *)
(* from the dependency file and whenever analyze_source_files has          *)
(* returned, every path in the dependency list of an entry is the path of  *)
(* an entry, and the assertion of get_and_fill_last_modified_time never    *)
(* fails.                                                                  *)
(***************************************************************************)
C39_GraphIsClosed ==
    /\ crash # "assertion"
    /\ (crash = "" /\ analysis.phase \in { "fill", "done" })
          => \A i \in 1..Len(source_files) :
                \A k \in 1..Len(source_files[i].dependencies) :
                   \E j \in 1..Len(source_files) :
                      source_files[j].file_path = source_files[i].dependencies[k]

(***************************************************************************)
(* The text of a file as the C preprocessor reads it: the positions that   *)
(* lie outside comments, the '#' characters that are the first token of    *)
(* their line, and those of them that begin an include line.               *)
(***************************************************************************)
RECURSIVE OutsideComments(_, _, _)
OutsideComments(text, i, mode) ==
    IF i > Len(text) THEN { }
    ELSE IF mode = "code"
    THEN IF text[i] = "/" /\ i < Len(text) /\ text[i + 1] = "*"
         THEN OutsideComments(text, i + 2, "block")
         ELSE IF text[i] = "/" /\ i < Len(text) /\ text[i + 1] = "/"
         THEN OutsideComments(text, i + 2, "line")
         ELSE { i } \cup OutsideComments(text, i + 1, "code")
    ELSE IF mode = "line"
    THEN IF text[i] = "\n" THEN { i } \cup OutsideComments(text, i + 1, "code")
         ELSE OutsideComments(text, i + 1, "line")
    ELSE IF text[i] = "*" /\ i < Len(text) /\ text[i + 1] = "/"
         THEN OutsideComments(text, i + 2, "code")
         ELSE OutsideComments(text, i + 1, "block")

FirstTokens(text) ==
    LET code == OutsideComments(text, 1, "code")
    IN { i \in code :
           /\ text[i] = "#"
           /\ \A j \in code :
                 (j < i /\ ~\E k \in code : j <= k /\ k < i /\ text[k] = "\n") => text[j] = " " }

\* the file names of the include lines: '#', the identifier include, a
\* blank, and the name in quotes
IncludeLineNames(text) ==
    { text[i + 4] : i \in { h \in FirstTokens(text) :
                              /\ h + 5 <= Len(text)
                              /\ text[h + 1] = "include" /\ text[h + 2] = " "
                              /\ text[h + 3] = "\"" /\ text[h + 5] = "\"" } }

(***************************************************************************)
(* C32: the scanner takes an include only from a '#' that is the first     *)
(* token of its line and is followed by the identifier include: every      *)
(* include it returns is the name of such a line, so an include line in a  *)
(* line comment, in a block comment or after another token of the same     *)
(* line is not returned.                                                   *)
(***************************************************************************)
C32_OnlyDirectivesAtLineStart ==
    pc = "scanned" =>
        \A k \in 1..Len(includes) : includes[k].path \in IncludeLineNames(source_text)

(***************************************************************************)
(* C40: the resolution of depends_on between configurations                *)
(***************************************************************************)

\* helper: the configuration the depends_on member of configuration i names, 0 when it names none
DependsOn(i) ==
    LET list == config_objects.list
    IN IF \E j \in 1..Len(list) : list[j].name = list[i].depends_on
       THEN CHOOSE j \in 1..Len(list) : list[j].name = list[i].depends_on
       ELSE 0

\* helper: the configurations resolve_project_config enters when called for
\* configuration i, in the order of the calls, up to the first it enters twice
RECURSIVE CallPath(_, _)
CallPath(i, seen) ==
    IF i = 0 \/ \E k \in 1..Len(seen) : seen[k] = i THEN seen
    ELSE CallPath(DependsOn(i), Append(seen, i))

\* helper: following depends_on from configuration i comes back to a configuration already passed
ReachesCycle(i) ==
    LET path == CallPath(i, << >>) IN DependsOn(path[Len(path)]) # 0

\* helper: following depends_on from configuration i ends at a configuration without depends_on
ReachesRoot(i) ==
    LET path == CallPath(i, << >>) IN config_objects.list[path[Len(path)]].depends_on = "<no member>"

\* helper: every depends_on member of the file names a configuration of the file
DependsOnIsARelation ==
    \A i \in 1..Len(config_objects.list) :
        config_objects.list[i].depends_on = "<no member>" \/ DependsOn(i) # 0

\* helper: the error a call for configuration i reports when it reaches a cycle: the
\* configuration entered twice, then every configuration entered, the innermost first
CircularError(i) ==
    LET path == CallPath(i, << >>)
        RECURSIVE RequiredBy(_)
        RequiredBy(k) ==
            IF k = 0 THEN ""
            ELSE " required by '" \o config_objects.list[path[k]].name \o "'" \o RequiredBy(k - 1)
    IN "circular dependency encountered in config file; '"
       \o config_objects.list[DependsOn(path[Len(path)])].name \o "'" \o RequiredBy(Len(path))

\* helper: the first configuration of the file that does not reach a root, 0 when all do
FirstFailing ==
    LET list == config_objects.list
    IN IF \A i \in 1..Len(list) : ReachesRoot(i) THEN 0
       ELSE CHOOSE i \in 1..Len(list) : ~ReachesRoot(i) /\ \A j \in 1..(i - 1) : ReachesRoot(j)

\* helper: resolve_project_config is called for configuration i before get_project_configs returns
Resolved(i) ==
    \E j \in 1..(IF FirstFailing = 0 THEN Len(config_objects.list) ELSE FirstFailing) :
        \E k \in 1..Len(CallPath(j, << >>)) : CallPath(j, << >>)[k] = i

C40_States ==
    /\ Len(config_objects.stack) <= Len(config_objects.list) + 1
    /\ pc = "resolved" =>
         /\ config_objects.error = "" <=> FirstFailing = 0
         /\ \A i \in 1..Len(config_objects.list) :
              /\ config_objects.list[i].state # "none" <=> Resolved(i)
              /\ config_objects.list[i].state # "resolving"
              /\ (Resolved(i) /\ ReachesCycle(i)) =>
                    /\ config_objects.list[i].state = "circular_error"
                    /\ config_objects.error = CircularError(FirstFailing)
              /\ (Resolved(i) /\ ReachesRoot(i)) => config_objects.list[i].state = "all"
              /\ config_objects.list[i].state = "all" => ReachesRoot(i)

\* helper: the moves of the state of a configuration
C40_Moves ==
    \A i \in 1..Len(config_objects.list) :
        LET from == config_objects.list[i].state
            to == config_objects'.list[i].state
        IN from # to =>
              /\ << from, to >> \in { << "none", "resolving" >>, << "none", "all" >>, << "none", "error" >>,
                                      << "resolving", "all" >>, << "resolving", "circular_error" >>,
                                      << "resolving", "error" >> }
              /\ ReachesCycle(i) => << from, to >> \in { << "none", "resolving" >>,
                                                         << "resolving", "circular_error" >> }

====
